---- MODULE Spec2Model ----
(***************************************************************************)
(* Model of the GPU orchestrator control plane.                            *)
(*                                                                         *)
(*  Spec      the job lifecycle: REST submit and cancel handlers, the      *)
(*            scheduler loop, the spawned provisioning task and the        *)
(*            executor's completion callback, all writing the jobs,        *)
(*            job_events and allocations tables.                           *)
(*  SpecRepo  the job repository used directly by several workers.         *)
(*  SpecGPU   the GPU sharing ledger.                                      *)
(*  SpecGPURace  the GPU sharing ledger under fractional allocate calls    *)
(*            that overlap in time.                                        *)
(*  SpecPool  the cluster pool.                                            *)
(*  SpecQueue the scheduler's priority queue used by several goroutines.   *)
(*  SpecRestart  the job lifecycle of a process that starts on a database  *)
(*            which already holds pending jobs.                            *)
(*  SpecOpt   the allocation optimizer applied to a pricing snapshot.      *)
(*  SpecCost  the cost tracker and the job monitor beside jobs that move   *)
(*            through their lifecycle.                                     *)
(*                                                                         *)
(* The database is modelled at the level of the statements the Go code     *)
(* issues: every statement or transaction either commits or fails, and a   *)
(* failed transaction leaves the tables as they were.                      *)
(***************************************************************************)
EXTENDS Integers, Sequences, FiniteSets, TLC

(***************************************************************************)
(* Bounds of the model.                                                    *)
(***************************************************************************)
NumJobs == 2
MaxPlan == 2
MaxCancels == 1
NumWorkers == 2
NumQueueProcs == 2    \* goroutines calling the queue at the same time
MaxQueued == 3        \* jobs handed to the queue in SpecQueue
MaxRuns == 2          \* calls of Optimize on one pricing snapshot
FractionOne == 4      \* GPU fractions are counted in units of 1/FractionOne
PoolMinSize == 1      \* NewClusterPool(minSize, maxSize)
PoolMaxSize == 2
MaxClock == 2         \* seconds of wall clock the pool is followed for
PoolGPUCap == 16      \* releases are followed while available_gpus stays within this
PoolJobCap == 3       \* reservations are followed while active_jobs stays within this
MaxCostClock == 2     \* tenths of an hour the cost tracker is followed for
SubmitMaxBudget == 2  \* constraints.max_budget of the submitted jobs, in dollars

JobIDs == 1..NumJobs
Workers == 1..NumWorkers
QProcs == 1..NumQueueProcs
NodeIDs == { "node-a", "node-b" }   \* the nodes whose GPU the ledger tracks

(***************************************************************************)
(* models.JobStatus and the documented state machine.                      *)
(***************************************************************************)
JobStatusPending == "pending"
JobStatusScheduled == "scheduled"
JobStatusProvisioning == "provisioning"
JobStatusRunning == "running"
JobStatusCheckpointing == "checkpointing"
JobStatusCompleted == "completed"
JobStatusFailed == "failed"
JobStatusCancelled == "cancelled"

Statuses ==
  { JobStatusPending, JobStatusScheduled, JobStatusProvisioning, JobStatusRunning,
    JobStatusCheckpointing, JobStatusCompleted, JobStatusFailed, JobStatusCancelled }

TerminalStatuses == { JobStatusCompleted, JobStatusFailed, JobStatusCancelled }

\* No row in the jobs table / a NULL from_status.
Absent == "absent"
Nil == "nil"

\* The edges of the job lifecycle state machine.
ValidTransitions ==
  { <<JobStatusPending, JobStatusScheduled>>,
    <<JobStatusScheduled, JobStatusProvisioning>>,
    <<JobStatusProvisioning, JobStatusRunning>>,
    <<JobStatusRunning, JobStatusCheckpointing>>,
    <<JobStatusCheckpointing, JobStatusRunning>>,
    <<JobStatusRunning, JobStatusCompleted>> }
  \cup { <<s, t>> : s \in Statuses \ TerminalStatuses,
                    t \in { JobStatusFailed, JobStatusCancelled } }

VARIABLES
  jobStatus,    \* jobs.status per job id, Absent when the row does not exist
  events,       \* job_events rows of each job, in id order
  allocRows,    \* number of rows of the allocations table per job
  jobPlan,      \* number of allocations of the plan the optimizer chose per job
  storedKey,    \* jobs.deadline_at and jobs.budget_usd of the rows this process found
                \* in the database when it started (NoKey for the others)
  optResult,    \* what Optimize returned when the scheduler processed the job
  submitPc,     \* position of the SubmitJob handler per job
  queue,        \* JobQueue.jobs, the heap array
  schedPc,      \* position of the scheduler goroutine
  schedJob,     \* the job the scheduler popped
  schedFresh,   \* freshJob.Status, as re-read by processQueue
  schedK,       \* allocations stored so far by processJob
  provPc,       \* position of the provisionAndExecuteJob goroutine per job
  spawned,      \* number of provisioning goroutines started per job
  skipped,      \* whether processQueue popped the job and skipped it as not pending
  cancelView,   \* job.Status as read by an in-flight CancelJob, Nil when none
  cancels,      \* CancelJob requests made per job
  workerPc,     \* SpecRepo: position of each worker per job
  gpuAllocations, \* SpecGPU: GPUSharingManager.gpuAllocations
  gpuReturn,      \* SpecGPU: the last call of the manager and the error it returned
  gpuCalls,       \* SpecGPURace: the fractional allocate call of each job
  clusters,     \* SpecPool: ClusterPool.clusters
  clock,        \* SpecPool: time.Now() in seconds
  poolReturn,   \* SpecPool: the last call of the pool and the error it returned
  mu,           \* SpecQueue: holder of JobQueue.mu, 0 when unlocked
  qPc,          \* SpecQueue: position of each goroutine inside Enqueue or PopJob
  enqueued,     \* SpecQueue: the queued jobs passed to Enqueue so far
  returned,     \* SpecQueue: the jobs PopJob returned, in order
  run,          \* SpecQueue: number of PopJob returns since the last Enqueue
  pricing,      \* SpecOpt: the pricing snapshot FetchAllPricing returned
  requirements, \* SpecOpt: the job's requirements
  constraints,  \* SpecOpt: the job's constraints
  plans,        \* SpecOpt: what each run of Optimize on these inputs returned
  jobCosts,     \* SpecCost: CostTracker.jobCosts
  costRunningUSD, \* SpecCost: jobs.cost_running_usd per job
  updatedAt,    \* SpecCost: jobs.updated_at per job, in the units of wallClock
  tickPc,       \* SpecCost: position of the tracker goroutine inside updateJobCost
  alerts,       \* SpecCost: whether the job monitor has ticked, and what its last tick logged
  wallClock,    \* SpecCost: time.Now() in tenths of an hour
  runningTime   \* SpecCost: history, the time each job has spent in status running

lifeVars ==
  << jobStatus, events, allocRows, jobPlan, storedKey, optResult, submitPc, queue, schedPc,
     schedJob, schedFresh, schedK, provPc, spawned, skipped, cancelView, cancels >>
repoVars == << workerPc >>
gpuVars == << gpuAllocations, gpuReturn, gpuCalls >>
poolVars == << clusters, clock, poolReturn >>
queueVars == << mu, qPc, enqueued, returned, run >>
optVars == << pricing, requirements, constraints, plans >>
costVars == << jobCosts, costRunningUSD, updatedAt, tickPc, alerts, wallClock, runningTime >>
vars == << lifeVars, repoVars, gpuVars, poolVars, queueVars, optVars, costVars >>

(***************************************************************************)
(* JobQueue: a container/heap over queued jobs.  A queued job carries the  *)
(* fields of the *models.Job it was enqueued with that Less reads.         *)
(* deadline = 0 stands for Constraints.Deadline == nil.                    *)
(***************************************************************************)
QueuedJob(id, deadline, budget) == [id |-> id, deadline |-> deadline, budget |-> budget]

\* The (deadline, budget) a submitted job may carry.
SubmitKeys == { <<0, 1>>, <<1, 1>> }
NoKey == <<0, 0>>     \* the row was not in the database when the process started

LessBudgetOnly(a, b) == a.budget < b.budget
Less(a, b) ==
  IF a.deadline # 0 /\ b.deadline # 0 THEN a.deadline < b.deadline
  ELSE IF a.deadline # 0 THEN TRUE
  ELSE IF b.deadline # 0 THEN FALSE
  ELSE a.budget < b.budget

\* Swap of the heap array, on 0-based indices as in the Go code.
Swap(h, i, j) == [h EXCEPT ![i + 1] = h[j + 1], ![j + 1] = h[i + 1]]

RECURSIVE HeapUp(_, _)
HeapUp(h, j) ==
  IF j = 0 THEN h
  ELSE LET i == (j - 1) \div 2
       IN IF ~Less(h[j + 1], h[i + 1]) THEN h ELSE HeapUp(Swap(h, i, j), i)

RECURSIVE HeapDown(_, _, _)
HeapDown(h, i, n) ==
  LET j1 == 2 * i + 1
  IN IF j1 >= n THEN h
     ELSE LET j2 == j1 + 1
              j == IF j2 < n /\ Less(h[j2 + 1], h[j1 + 1]) THEN j2 ELSE j1
          IN IF ~Less(h[j + 1], h[i + 1]) THEN h ELSE HeapDown(Swap(h, i, j), j, n)

\* JobQueue.Enqueue: heap.Push = append, then up.
Enqueue(h, item) == HeapUp(Append(h, item), Len(h))

\* JobQueue.PopJob on a non-empty queue: heap.Pop = swap root and last, down, cut.
PopJob(h) ==
  LET n == Len(h) - 1
      s == HeapDown(Swap(h, 0, n), 0, n)
  IN [job |-> s[n + 1], rest |-> SubSeq(s, 1, n)]

(***************************************************************************)
(* JobRepository.                                                          *)
(***************************************************************************)
JobEvent(from, to, reason) == [from |-> from, to |-> to, reason |-> reason]

\* createJobEventTx: one INSERT INTO job_events.
createJobEventTx(ev, j, from, to, reason) ==
  [ev EXCEPT ![j] = Append(@, JobEvent(from, to, reason))]

\* The UPDATE of UpdateJobStatus: it names the row by id alone.
UpdateStatusRow(st, j, from, to) == [st EXCEPT ![j] = to]

\* UpdateJobStatus, committed: the UPDATE and the event INSERT in one transaction.
\* The UPDATE of a missing row changes nothing, and the INSERT then violates the
\* foreign key, so the transaction commits only for an existing job.
UpdateJobStatus(j, from, to, reason) ==
  /\ jobStatus[j] # Absent
  /\ jobStatus' = UpdateStatusRow(jobStatus, j, from, to)
  /\ events' = createJobEventTx(events, j, from, to, reason)

\* A statement or transaction that failed: the tables are as they were.
DBUnchanged == UNCHANGED << jobStatus, events >>

\* ListJobs(userID, status, ...): the ids of the rows it returns.
DefaultUser == "default-user"
UserIDOf(j) == DefaultUser
ListJobs(userID, status) ==
  { j \in JobIDs : jobStatus[j] = status /\ UserIDOf(j) = userID }

(***************************************************************************)
(* AllocationOptimizer.Optimize as the scheduler sees it: an error, or the *)
(* allocation of the head of the scored strategies.  The head may be an    *)
(* empty allocation (no strategy found a complete plan) and it may be a    *)
(* strategy the scorer marked with the bad score 999999 (over budget or    *)
(* below the reliability floor): scoreStrategies sorts, it removes nothing.*)
(***************************************************************************)
OptimizeResults ==
  { [err |-> TRUE, n |-> 0, feasible |-> FALSE],
    [err |-> FALSE, n |-> 0, feasible |-> FALSE] }
  \cup { [err |-> FALSE, n |-> k, feasible |-> b] : k \in 1..MaxPlan, b \in BOOLEAN }

\* What is remembered of a result: whether the optimizer found a feasible plan.
ResultKind(r) == IF r.feasible THEN "feasible" ELSE "infeasible"

(***************************************************************************)
(* GPUSharingManager: the ledger gpuAllocations, keyed by gpu_id.  The     *)
(* code derives the gpu_id from the node ("gpu-<node.ID>-0"), so the       *)
(* ledger is a map from nodes; NoGPU stands for a missing key.  Fractions  *)
(* are whole multiples of 1/FractionOne, which float64 adds exactly.       *)
(***************************************************************************)
NoGPU == [present |-> FALSE]

\* job.Requirements as AllocateGPU reads it; fractions are multiples of
\* 1/FractionOne, from the smallest share to the whole GPU.
GPUMemoryChoices == { 8, 24 }
GPURequests ==
  [ UseMIG : BOOLEAN, MIGProfile : { "", "1g.10gb" },
    GPUFraction : 1..FractionOne, GPUMemory : GPUMemoryChoices ]

JobGPUAllocation(job, fraction, memory) ==
  [JobID |-> job, GPUFraction |-> fraction, MemoryGB |-> memory]

GPUAllocation(gpuType, total, used, allocs, mig, slicing) ==
  [ present |-> TRUE, GPUType |-> gpuType, TotalMemory |-> total, UsedMemory |-> used,
    Allocations |-> allocs, MIGEnabled |-> mig, TimeSlicing |-> slicing ]

T4TotalMemory == 16

RECURSIVE SumFraction(_)
SumFraction(allocs) ==
  IF allocs = << >> THEN 0 ELSE Head(allocs).GPUFraction + SumFraction(Tail(allocs))

RECURSIVE SumMemory(_)
SumMemory(allocs) ==
  IF allocs = << >> THEN 0 ELSE Head(allocs).MemoryGB + SumMemory(Tail(allocs))

\* The two capacity checks of allocateFractionalGPU.
FractionFitsNoCheck(used, required) == TRUE
FractionFits(used, required) == ~(used + required > FractionOne)
MemoryFits(used, required, total) == ~(used + required > total)

\* allocateMIG: an error without a profile; otherwise it builds an allocation
\* and returns it, and the ledger is not written.
allocateMIG(ledger, job, node, req) ==
  IF req.MIGProfile = ""
  THEN [err |-> TRUE, ledger |-> ledger]
  ELSE [err |-> FALSE, ledger |-> ledger]

\* allocateFractionalGPU: get or create the GPU's record (the created record
\* stays in the map even when the request is then rejected), check capacity,
\* append the job's share.
allocateFractionalGPU(ledger, job, node, req) ==
  LET existing == IF ledger[node].present THEN ledger[node]
                  ELSE GPUAllocation("T4", T4TotalMemory, 0, << >>, FALSE, TRUE)
      withRecord == [ledger EXCEPT ![node] = existing]
      usedFraction == SumFraction(existing.Allocations)
      usedMemory == SumMemory(existing.Allocations)
  IN IF ~FractionFits(usedFraction, req.GPUFraction) THEN [err |-> TRUE, ledger |-> withRecord]
     ELSE IF ~MemoryFits(usedMemory, req.GPUMemory, existing.TotalMemory)
     THEN [err |-> TRUE, ledger |-> withRecord]
     ELSE [ err |-> FALSE,
            ledger |-> [ledger EXCEPT ![node] =
               [existing EXCEPT
                  !.Allocations = Append(@, JobGPUAllocation(job, req.GPUFraction, req.GPUMemory)),
                  !.UsedMemory = @ + req.GPUMemory]] ]

\* allocateFullGPU: writes a fresh record for the GPU, whatever the map held.
allocateFullGPU(ledger, job, node, req) ==
  [ err |-> FALSE,
    ledger |-> [ledger EXCEPT ![node] =
       GPUAllocation("V100", req.GPUMemory, req.GPUMemory,
                     << JobGPUAllocation(job, FractionOne, req.GPUMemory) >>, FALSE, FALSE)] ]

\* AllocateGPU: MIG first, then fractional (GPUFraction < 1.0), else full.
AllocateGPUResult(ledger, job, node, req) ==
  IF req.UseMIG THEN allocateMIG(ledger, job, node, req)
  ELSE IF req.GPUFraction < FractionOne THEN allocateFractionalGPU(ledger, job, node, req)
  ELSE allocateFullGPU(ledger, job, node, req)

\* Index of the first allocation of the job in the list, 0 if none.
FirstOf(allocs, job) ==
  IF \E i \in DOMAIN allocs : allocs[i].JobID = job
  THEN CHOOSE i \in DOMAIN allocs :
         /\ allocs[i].JobID = job
         /\ \A k \in DOMAIN allocs : allocs[k].JobID = job => i <= k
  ELSE 0

RemoveAt(seq, i) == SubSeq(seq, 1, i - 1) \o SubSeq(seq, i + 1, Len(seq))

\* ReleaseGPU on the GPU where the map iteration finds the job first: remove
\* the job's first allocation there, and delete the record when none is left.
ReleaseOn(ledger, node, job) ==
  LET alloc == ledger[node]
      i == FirstOf(alloc.Allocations, job)
      rest == RemoveAt(alloc.Allocations, i)
  IN IF rest = << >>
     THEN [ledger EXCEPT ![node] = NoGPU]
     ELSE [ledger EXCEPT ![node] =
             [alloc EXCEPT !.Allocations = rest,
                           !.UsedMemory = @ - alloc.Allocations[i].MemoryGB]]

HoldsJob(ledger, node, job) ==
  ledger[node].present /\ FirstOf(ledger[node].Allocations, job) # 0

lifeIdle == UNCHANGED << lifeVars, repoVars, queueVars, optVars, costVars >>

AllocateGPU(job, node) ==
  /\ \E req \in GPURequests :
       LET result == AllocateGPUResult(gpuAllocations, job, node, req)
       IN /\ gpuAllocations' = result.ledger
          /\ gpuReturn' = [ op |-> "AllocateGPU", job |-> job, node |-> node,
                            UseMIG |-> req.UseMIG, err |-> result.err ]
  /\ UNCHANGED << gpuCalls, poolVars >>
  /\ lifeIdle

\* ReleaseGPU(jobID): Go's map iteration order decides which GPU is found first.
ReleaseGPU(job) ==
  /\ \/ \E node \in NodeIDs :
          /\ HoldsJob(gpuAllocations, node, job)
          /\ gpuAllocations' = ReleaseOn(gpuAllocations, node, job)
          /\ gpuReturn' = [ op |-> "ReleaseGPU", job |-> job, err |-> FALSE ]
     \/ /\ \A node \in NodeIDs : ~HoldsJob(gpuAllocations, node, job)
        /\ UNCHANGED gpuAllocations      \* "GPU allocation not found"
        /\ gpuReturn' = [ op |-> "ReleaseGPU", job |-> job, err |-> TRUE ]
  /\ UNCHANGED << gpuCalls, poolVars >>
  /\ lifeIdle

GPUNext ==
  \/ \E job \in JobIDs, node \in NodeIDs : AllocateGPU(job, node)
  \/ \E job \in JobIDs : ReleaseGPU(job)

(***************************************************************************)
(* The manager has no lock, so two goroutines may be inside                *)
(* allocateFractionalGPU at once.  A call is then two steps: the lookup    *)
(* (or creation) of the GPU's record with the capacity check, and the      *)
(* append with the update of UsedMemory.  existingAlloc is a pointer to    *)
(* the record in the map.  The append and the += are unsynchronised        *)
(* read-modify-writes: each starts from the value the goroutine read,      *)
(* which is the current one or the one it saw at its check.                *)
(***************************************************************************)
allocateFractionalGPUCheck(job, node) ==
  /\ gpuCalls[job].pc = "idle"
  /\ \E req \in GPURequests :
       /\ ~req.UseMIG
       /\ req.GPUFraction < FractionOne
       /\ LET existing == IF gpuAllocations[node].present THEN gpuAllocations[node]
                           ELSE GPUAllocation("T4", T4TotalMemory, 0, << >>, FALSE, TRUE)
              fits == /\ FractionFits(SumFraction(existing.Allocations), req.GPUFraction)
                      /\ MemoryFits(SumMemory(existing.Allocations), req.GPUMemory,
                                    existing.TotalMemory)
          IN /\ gpuAllocations' = [gpuAllocations EXCEPT ![node] = existing]
             /\ gpuCalls' = [gpuCalls EXCEPT ![job] =
                   IF fits
                   THEN [ pc |-> "checked", node |-> node, GPUFraction |-> req.GPUFraction,
                          MemoryGB |-> req.GPUMemory, seen |-> existing ]
                   ELSE [ pc |-> "done", node |-> node, err |-> TRUE ]]
  /\ UNCHANGED << gpuReturn, poolVars >>
  /\ lifeIdle

allocateFractionalGPUAppend(job) ==
  /\ gpuCalls[job].pc = "checked"
  /\ LET call == gpuCalls[job]
         current == gpuAllocations[call.node]
     IN \E allocs \in { current.Allocations, call.seen.Allocations },
           used \in { current.UsedMemory, call.seen.UsedMemory } :
          gpuAllocations' = [gpuAllocations EXCEPT ![call.node] =
            [current EXCEPT
               !.Allocations = Append(allocs, JobGPUAllocation(job, call.GPUFraction, call.MemoryGB)),
               !.UsedMemory = used + call.MemoryGB]]
  /\ gpuCalls' = [gpuCalls EXCEPT ![job] =
                   [ pc |-> "done", node |-> gpuCalls[job].node, err |-> FALSE ]]
  /\ UNCHANGED << gpuReturn, poolVars >>
  /\ lifeIdle

GPURaceNext ==
  \/ \E job \in JobIDs, node \in NodeIDs : allocateFractionalGPUCheck(job, node)
  \/ \E job \in JobIDs : allocateFractionalGPUAppend(job)

(***************************************************************************)
(* ClusterPool: the map clusters, keyed by cluster id.  ScaleUp names a    *)
(* cluster "cluster-<unix seconds>-<i>", so an id is the pair of the clock *)
(* and the loop index; NoCluster stands for a missing key.  Every method   *)
(* holds the pool's mutex, so each is one step.                            *)
(***************************************************************************)
NoCluster == [present |-> FALSE]
ClusterIDs == (0..MaxClock) \X (0..(PoolMaxSize - 1))

GPUsPerCluster == 8
ScaleUpDemands == { 1, 8, 16 }
GPUCounts == { 4, 8 }
IdleTimes == { 0, 1 }

ClusterInfo(created, lastUsed, active, total, available) ==
  [ present |-> TRUE, CreatedAt |-> created, LastUsedAt |-> lastUsed,
    ActiveJobs |-> active, TotalGPUs |-> total, AvailableGPUs |-> available ]

PoolIDs(pool) == { id \in DOMAIN pool : pool[id].present }
PoolLen(pool) == Cardinality(PoolIDs(pool))

\* How many clusters ScaleUp adds: demand / 8, at least one, at most the room left.
clustersToAdd(pool, demand) ==
  LET wanted == IF demand \div GPUsPerCluster = 0 THEN 1 ELSE demand \div GPUsPerCluster
  IN IF PoolLen(pool) + wanted > PoolMaxSize THEN PoolMaxSize - PoolLen(pool) ELSE wanted

\* ScaleUp's loop: a map write per index, replacing an entry of the same id.
ScaleUpPool(pool, now, demand) ==
  [ id \in DOMAIN pool |->
      IF id[1] = now /\ id[2] < clustersToAdd(pool, demand)
      THEN ClusterInfo(now, now, 0, GPUsPerCluster, GPUsPerCluster)
      ELSE pool[id] ]

ScaleUp(demand) ==
  /\ \/ /\ PoolLen(clusters) >= PoolMaxSize       \* "cluster pool at max size"
        /\ UNCHANGED clusters
     \/ /\ PoolLen(clusters) < PoolMaxSize
        /\ clusters' = ScaleUpPool(clusters, clock, demand)
  /\ poolReturn' = [ op |-> "ScaleUp", demand |-> demand,
                     err |-> PoolLen(clusters) >= PoolMaxSize ]
  /\ UNCHANGED << clock, gpuVars >>
  /\ lifeIdle

IsIdleWhateverJobs(info, now, idleTime) == now - info.LastUsedAt > idleTime

IsIdle(info, now, idleTime) == info.ActiveJobs = 0 /\ now - info.LastUsedAt > idleTime

\* ScaleDown collects the idle clusters in map order and deletes the first
\* removeCount of them: any removeCount of the idle ones.
ScaleDownPools(pool, now, idleTime) ==
  IF PoolLen(pool) <= PoolMinSize THEN { pool }
  ELSE LET toRemove == { id \in PoolIDs(pool) : IsIdle(pool[id], now, idleTime) }
           removeCount == IF PoolLen(pool) - Cardinality(toRemove) < PoolMinSize
                          THEN PoolLen(pool) - PoolMinSize
                          ELSE Cardinality(toRemove)
       IN { [ id \in DOMAIN pool |-> IF id \in gone THEN NoCluster ELSE pool[id] ] :
              gone \in { g \in SUBSET toRemove : Cardinality(g) = removeCount } }

ScaleDown(idleTime) ==
  /\ clusters' \in ScaleDownPools(clusters, clock, idleTime)
  /\ poolReturn' = [ op |-> "ScaleDown", idleTime |-> idleTime, err |-> FALSE ]
  /\ UNCHANGED << clock, gpuVars >>
  /\ lifeIdle

\* AutoScaler.CheckAndScale: ScaleUp when the queue is deeper than the
\* threshold, then ScaleDown.  Each of the two holds the pool's mutex on its
\* own; the calls other goroutines can make in between are the steps ScaleUp
\* and ScaleDown take separately.
CheckAndScale(queueDepth, scaleUpThreshold, idleTime) ==
  /\ LET scaleUp == queueDepth > scaleUpThreshold
         failed == scaleUp /\ PoolLen(clusters) >= PoolMaxSize
         scaled == IF scaleUp
                   THEN ScaleUpPool(clusters, clock, queueDepth - scaleUpThreshold)
                   ELSE clusters
     IN IF failed                                   \* "failed to scale up"
        THEN /\ UNCHANGED clusters
             /\ poolReturn' = [ op |-> "CheckAndScale", scaleUp |-> scaleUp,
                                scaleDown |-> FALSE, err |-> TRUE ]
        ELSE /\ clusters' \in ScaleDownPools(scaled, clock, idleTime)
             /\ poolReturn' = [ op |-> "CheckAndScale", scaleUp |-> scaleUp,
                                scaleDown |-> TRUE, err |-> FALSE ]
  /\ UNCHANGED << clock, gpuVars >>
  /\ lifeIdle

\* ReserveGPUs without the check of available_gpus.
ReserveGPUsUnchecked(clusterID, gpus) ==
  /\ LET return(err) == [ op |-> "ReserveGPUs", clusterID |-> clusterID, gpus |-> gpus,
                          err |-> err ]
     IN IF ~clusters[clusterID].present
        THEN UNCHANGED clusters /\ poolReturn' = return(TRUE)
        ELSE /\ clusters[clusterID].ActiveJobs < PoolJobCap
             /\ clusters[clusterID].AvailableGPUs - gpus >= -PoolGPUCap
             /\ clusters' = [clusters EXCEPT ![clusterID] =
                   [@ EXCEPT !.AvailableGPUs = @ - gpus, !.ActiveJobs = @ + 1,
                             !.LastUsedAt = clock]]
             /\ poolReturn' = return(FALSE)
  /\ UNCHANGED << clock, gpuVars >>
  /\ lifeIdle

ReserveGPUs(clusterID, gpus) ==
  /\ LET return(err) == [ op |-> "ReserveGPUs", clusterID |-> clusterID, gpus |-> gpus,
                          err |-> err ]
     IN IF ~clusters[clusterID].present                  \* "cluster not found"
        THEN UNCHANGED clusters /\ poolReturn' = return(TRUE)
        ELSE IF clusters[clusterID].AvailableGPUs < gpus  \* "not enough GPUs available"
        THEN UNCHANGED clusters /\ poolReturn' = return(TRUE)
        ELSE /\ clusters[clusterID].ActiveJobs < PoolJobCap
             /\ clusters' = [clusters EXCEPT ![clusterID] =
                   [@ EXCEPT !.AvailableGPUs = @ - gpus, !.ActiveJobs = @ + 1,
                             !.LastUsedAt = clock]]
             /\ poolReturn' = return(FALSE)
  /\ UNCHANGED << clock, gpuVars >>
  /\ lifeIdle

ReleaseGPUs(clusterID, gpus) ==
  /\ IF ~clusters[clusterID].present THEN UNCHANGED clusters      \* "not found"
     ELSE /\ clusters[clusterID].AvailableGPUs + gpus <= PoolGPUCap
          /\ clusters' = [clusters EXCEPT ![clusterID] =
                [@ EXCEPT !.AvailableGPUs = @ + gpus,
                          !.ActiveJobs = IF @ - 1 < 0 THEN 0 ELSE @ - 1]]
  /\ poolReturn' = [ op |-> "ReleaseGPUs", err |-> ~clusters[clusterID].present ]
  /\ UNCHANGED << clock, gpuVars >>
  /\ lifeIdle

\* A second of wall clock passes (time.Now().Unix()).
Tick ==
  /\ clock < MaxClock
  /\ clock' = clock + 1
  /\ UNCHANGED << clusters, poolReturn, gpuVars >>
  /\ lifeIdle

PoolNext ==
  \/ \E demand \in ScaleUpDemands : ScaleUp(demand)
  \/ \E idleTime \in IdleTimes : ScaleDown(idleTime)
  \/ \E queueDepth \in { 0, 3 }, idleTime \in IdleTimes : CheckAndScale(queueDepth, 2, idleTime)
  \/ \E id \in ClusterIDs, gpus \in GPUCounts : ReserveGPUs(id, gpus)
  \/ \E id \in ClusterIDs, gpus \in GPUCounts : ReleaseGPUs(id, gpus)
  \/ Tick

(***************************************************************************)
(* Initial state: empty tables, empty queue, no goroutine started.         *)
(***************************************************************************)
LifeInit ==
  /\ jobStatus = [j \in JobIDs |-> Absent]
  /\ events = [j \in JobIDs |-> << >>]
  /\ allocRows = [j \in JobIDs |-> 0]
  /\ jobPlan = [j \in JobIDs |-> 0]
  /\ storedKey = [j \in JobIDs |-> NoKey]
  /\ optResult = [j \in JobIDs |-> "none"]
  /\ submitPc = [j \in JobIDs |-> "none"]
  /\ queue = << >>
  /\ schedPc = "start"
  /\ schedJob = 0
  /\ schedFresh = Nil
  /\ schedK = 0
  /\ provPc = [j \in JobIDs |-> "none"]
  /\ spawned = [j \in JobIDs |-> 0]
  /\ skipped = [j \in JobIDs |-> FALSE]
  /\ cancelView = [j \in JobIDs |-> Nil]
  /\ cancels = [j \in JobIDs |-> 0]

RepoIdle == workerPc = [w \in Workers |-> [j \in JobIDs |-> "idle"]]
GPUIdle ==
  /\ gpuAllocations = [n \in NodeIDs |-> NoGPU]
  /\ gpuReturn = [ op |-> "" ]
  /\ gpuCalls = [j \in JobIDs |-> [ pc |-> "idle" ]]
PoolIdle ==
  clusters = [id \in ClusterIDs |-> NoCluster] /\ clock = 0 /\ poolReturn = [ op |-> "" ]
QueueIdle ==
  /\ mu = 0
  /\ qPc = [p \in QProcs |-> "idle"]
  /\ enqueued = {}
  /\ returned = << >>
  /\ run = 0
OptIdle ==
  /\ pricing = << >>
  /\ requirements = [GPUs |-> 0]
  /\ constraints = [MaxBudget |-> 0]
  /\ plans = << >>
\* NewCostTracker: an empty map; no monitor tick yet; cost_running_usd defaults to 0.
CostIdle ==
  /\ jobCosts = [j \in JobIDs |-> [tracked |-> FALSE]]
  /\ costRunningUSD = [j \in JobIDs |-> 0]
  /\ updatedAt = [j \in JobIDs |-> 0]
  /\ tickPc = [pc |-> "idle"]
  /\ alerts = [ticked |-> FALSE, emitted |-> {}]
  /\ wallClock = 0
  /\ runningTime = [j \in JobIDs |-> 0]

schedVars == << schedPc, schedJob, schedFresh, schedK >>
otherVars == << repoVars, gpuVars, poolVars, queueVars, optVars, costVars >>

(***************************************************************************)
(* JobHandler.SubmitJob: CreateJob (INSERT INTO jobs, then CreateJobEvent  *)
(* in a transaction of its own), then Scheduler.Enqueue.                   *)
(***************************************************************************)
\* CreateJob, the INSERT INTO jobs (autocommit).
SubmitInsert(j) ==
  /\ submitPc[j] = "none"
  /\ \A i \in JobIDs : i < j => submitPc[i] # "none"   \* ids name the jobs in created_at order
  /\ jobStatus[j] = Absent
  /\ \/ /\ jobStatus' = [jobStatus EXCEPT ![j] = JobStatusPending]
        /\ submitPc' = [submitPc EXCEPT ![j] = "inserted"]
     \/ /\ submitPc' = [submitPc EXCEPT ![j] = "rejected"]
        /\ UNCHANGED jobStatus
  /\ UNCHANGED << events, allocRows, jobPlan, optResult, queue, schedVars, provPc,
                  spawned, skipped, cancelView, cancels, storedKey, otherVars >>

\* CreateJob, the initial event; on error SubmitJob answers 500 and does not enqueue.
SubmitEvent(j) ==
  /\ submitPc[j] = "inserted"
  /\ \/ /\ events' = createJobEventTx(events, j, Nil, JobStatusPending, "job_created")
        /\ submitPc' = [submitPc EXCEPT ![j] = "created"]
     \/ /\ submitPc' = [submitPc EXCEPT ![j] = "rejected"]
        /\ UNCHANGED events
  /\ UNCHANGED << jobStatus, allocRows, jobPlan, optResult, queue, schedVars, provPc,
                  spawned, skipped, cancelView, cancels, storedKey, otherVars >>

\* h.scheduler.Enqueue(job)
SubmitEnqueue(j) ==
  /\ submitPc[j] = "created"
  /\ \E k \in SubmitKeys : queue' = Enqueue(queue, QueuedJob(j, k[1], k[2]))
  /\ submitPc' = [submitPc EXCEPT ![j] = "enqueued"]
  /\ UNCHANGED << jobStatus, events, allocRows, jobPlan, optResult, schedVars, provPc,
                  spawned, skipped, cancelView, cancels, storedKey, otherVars >>

(***************************************************************************)
(* Scheduler.Start, processQueue and processJob: one goroutine.            *)
(***************************************************************************)
RECURSIVE EnqueueAll(_, _)
EnqueueAll(h, S) ==
  IF S = {} THEN h
  ELSE LET m == CHOOSE x \in S : \A y \in S : y <= x
       IN EnqueueAll(Enqueue(h, QueuedJob(m, 0, 0)), S \ {m})

\* loadPendingJobs: ListJobs("", &pending, 100, "") in created_at DESC order; the
\* rows it scans carry neither deadline nor budget.
loadPendingJobs(h) == EnqueueAll(h, ListJobs("", JobStatusPending))

SchedStart ==
  /\ schedPc = "start"
  /\ queue' = loadPendingJobs(queue)
  /\ schedPc' = "idle"
  /\ UNCHANGED << jobStatus, events, allocRows, jobPlan, optResult, submitPc, schedJob,
                  schedFresh, schedK, provPc, spawned, skipped, cancelView, cancels,
                  storedKey, otherVars >>

\* <-ticker.C: processQueue begins.
SchedTick ==
  /\ schedPc = "idle"
  /\ schedPc' = "pop"
  /\ UNCHANGED << jobStatus, events, allocRows, jobPlan, optResult, submitPc, queue,
                  schedJob, schedFresh, schedK, provPc, spawned, skipped, cancelView, cancels,
                  storedKey, otherVars >>

\* A loop that calls provisionAndExecuteJob without `go`: it pops the next job
\* only when no provisioning task is under way.
SchedPopAfterProvisioning ==
  /\ schedPc = "pop"
  /\ \A j \in JobIDs : provPc[j] \in { "none", "executing", "done" }
  /\ IF queue = << >>
     THEN /\ schedPc' = "idle"
          /\ UNCHANGED << queue, schedJob >>
     ELSE /\ schedJob' = PopJob(queue).job.id
          /\ queue' = PopJob(queue).rest
          /\ schedPc' = "fetch"
  /\ UNCHANGED << jobStatus, events, allocRows, jobPlan, optResult, submitPc, schedFresh,
                  schedK, provPc, spawned, skipped, cancelView, cancels, storedKey, otherVars >>

\* job := s.queue.PopJob(); nil ends processQueue.
SchedPop ==
  /\ schedPc = "pop"
  /\ IF queue = << >>
     THEN /\ schedPc' = "idle"
          /\ UNCHANGED << queue, schedJob >>
     ELSE /\ schedJob' = PopJob(queue).job.id
          /\ queue' = PopJob(queue).rest
          /\ schedPc' = "fetch"
  /\ UNCHANGED << jobStatus, events, allocRows, jobPlan, optResult, submitPc, schedFresh,
                  schedK, provPc, spawned, skipped, cancelView, cancels, storedKey, otherVars >>

\* The loop body's locals (job, freshJob) end with the iteration.
EndIteration == schedJob' = 0 /\ schedFresh' = Nil

\* What processQueue does with the re-read status: anything but pending is skipped.
AfterFetchNoCheck(status) == "process"
AfterFetch(status) == IF status # JobStatusPending THEN "pop" ELSE "process"

\* freshJob, err := s.jobRepo.GetJob(job.ID), and the pending check.
SchedFetch ==
  /\ schedPc = "fetch"
  /\ \/ /\ schedPc' = AfterFetch(jobStatus[schedJob])
        /\ IF schedPc' = "pop"
           THEN /\ EndIteration
                /\ skipped' = [skipped EXCEPT ![schedJob] = TRUE]
           ELSE /\ schedFresh' = jobStatus[schedJob]
                /\ UNCHANGED << schedJob, skipped >>
     \/ /\ schedPc' = "pop"            \* GetJob failed: logged, continue
        /\ EndIteration
        /\ UNCHANGED skipped
  /\ UNCHANGED << jobStatus, events, allocRows, jobPlan, optResult, submitPc, queue,
                  schedK, provPc, spawned, cancelView, cancels, storedKey, otherVars >>

\* Where processJob goes once Optimize has returned r.
\*   err != nil              -> return err (the caller marks the job failed)
\*   len(allocations) == 0   -> return err, which is nil: the job is left as it is
\*   otherwise               -> UpdateJobStatus(pending -> scheduled)
AfterOptimize(r) ==
  IF r.err THEN "fail" ELSE IF r.n = 0 THEN "pop" ELSE "schedule"

\* processJob, steps 1 and 2: Optimize, then UpdateJobStatus to scheduled.
SchedProcess ==
  /\ schedPc = "process"
  /\ \E r \in OptimizeResults :
       /\ optResult' = [optResult EXCEPT ![schedJob] = ResultKind(r)]
       /\ IF AfterOptimize(r) = "schedule"
          THEN \/ /\ UpdateJobStatus(schedJob, JobStatusPending, JobStatusScheduled,
                                     "optimizer_selected_allocation")
                  /\ jobPlan' = [jobPlan EXCEPT ![schedJob] = r.n]
                  /\ schedK' = 0
                  /\ schedPc' = "alloc"
               \/ /\ DBUnchanged
                  /\ schedPc' = "fail"
                  /\ UNCHANGED << jobPlan, schedK >>
               /\ UNCHANGED << schedJob, schedFresh >>
          ELSE /\ schedPc' = AfterOptimize(r)
               /\ DBUnchanged
               /\ UNCHANGED << jobPlan, schedK >>
               /\ IF schedPc' = "pop" THEN EndIteration
                  ELSE UNCHANGED << schedJob, schedFresh >>
  /\ UNCHANGED << allocRows, submitPc, queue, provPc, spawned, skipped, cancelView, cancels,
                  storedKey, otherVars >>

\* AllocationRepository.CreateAllocation: one INSERT INTO allocations (autocommit).
CreateAllocation(rows, j) == [rows EXCEPT ![j] = @ + 1]

\* processJob, steps 3 and 5: store the allocations one by one; after the last
\* one, go s.provisionAndExecuteJob(...).
SchedAlloc ==
  /\ schedPc = "alloc"
  /\ \/ /\ allocRows' = CreateAllocation(allocRows, schedJob)
        /\ IF schedK + 1 = jobPlan[schedJob]
           THEN /\ provPc' = [provPc EXCEPT ![schedJob] = "start"]
                /\ spawned' = [spawned EXCEPT ![schedJob] = @ + 1]
                /\ schedPc' = "pop"
                /\ schedK' = 0
                /\ EndIteration
           ELSE /\ schedK' = schedK + 1
                /\ UNCHANGED << provPc, spawned, schedPc, schedJob, schedFresh >>
     \/ /\ schedPc' = "fail"           \* the INSERT failed: return err
        /\ UNCHANGED << allocRows, provPc, spawned, schedK, schedJob, schedFresh >>
  /\ UNCHANGED << jobStatus, events, jobPlan, optResult, submitPc, queue, skipped,
                  cancelView, cancels, storedKey, otherVars >>

\* processQueue's error path: UpdateJobStatus(freshJob.Status -> failed,
\* "scheduler_error"); its own error is ignored.
SchedFail ==
  /\ schedPc = "fail"
  /\ \/ UpdateJobStatus(schedJob, schedFresh, JobStatusFailed, "scheduler_error")
     \/ DBUnchanged
  /\ schedPc' = "pop"
  /\ schedK' = 0
  /\ EndIteration
  /\ UNCHANGED << allocRows, jobPlan, optResult, submitPc, queue, provPc, spawned, skipped,
                  cancelView, cancels, storedKey, otherVars >>

(***************************************************************************)
(* Scheduler.provisionAndExecuteJob, one goroutine per scheduled job, and  *)
(* TrainingExecutor.simulateExecution, the goroutine ExecuteJob starts.    *)
(***************************************************************************)
provFrame ==
  UNCHANGED << allocRows, jobPlan, optResult, submitPc, queue, schedVars, spawned, skipped,
               cancelView, cancels, storedKey, otherVars >>

\* UpdateJobStatus(scheduled -> provisioning); on error the task returns.
ProvStart(j) ==
  /\ provPc[j] = "start"
  /\ \/ /\ UpdateJobStatus(j, JobStatusScheduled, JobStatusProvisioning,
                           "starting_provisioning")
        /\ provPc' = [provPc EXCEPT ![j] = "provisioning"]
     \/ /\ DBUnchanged
        /\ provPc' = [provPc EXCEPT ![j] = "done"]
  /\ provFrame

\* ProvisionCluster failed: UpdateJobStatus(provisioning -> failed), error ignored.
ProvClusterFailed(j) ==
  /\ provPc[j] = "provisioning"
  /\ \/ UpdateJobStatus(j, JobStatusProvisioning, JobStatusFailed, "provisioning_failed")
     \/ DBUnchanged
  /\ provPc' = [provPc EXCEPT ![j] = "done"]
  /\ provFrame

\* ProvisionCluster succeeded: UpdateJobStatus(provisioning -> running).
ProvClusterReady(j) ==
  /\ provPc[j] = "provisioning"
  /\ \/ /\ UpdateJobStatus(j, JobStatusProvisioning, JobStatusRunning,
                           "provisioning_complete")
        /\ provPc' = [provPc EXCEPT ![j] = "running"]
     \/ /\ DBUnchanged
        /\ provPc' = [provPc EXCEPT ![j] = "done"]
  /\ provFrame

\* ExecuteJob returned an error (unsupported framework, setup failure):
\* UpdateJobStatus(running -> failed), error ignored.
ProvExecuteFailed(j) ==
  /\ provPc[j] = "running"
  /\ \/ UpdateJobStatus(j, JobStatusRunning, JobStatusFailed, "execution_failed")
     \/ DBUnchanged
  /\ provPc' = [provPc EXCEPT ![j] = "done"]
  /\ provFrame

\* ExecuteJob started simulateExecution and returned nil.
ProvExecute(j) ==
  /\ provPc[j] = "running"
  /\ provPc' = [provPc EXCEPT ![j] = "executing"]
  /\ DBUnchanged
  /\ provFrame

\* simulateExecution after its sleep: UpdateJobStatus(running -> completed).
ExecComplete(j) ==
  /\ provPc[j] = "executing"
  /\ \/ UpdateJobStatus(j, JobStatusRunning, JobStatusCompleted, "training_completed")
     \/ DBUnchanged
  /\ provPc' = [provPc EXCEPT ![j] = "done"]
  /\ provFrame

(***************************************************************************)
(* JobHandler.CancelJob: GetJob, then UpdateJobStatus(job.Status ->         *)
(* cancelled) with the status it read.                                     *)
(***************************************************************************)
cancelFrame ==
  UNCHANGED << allocRows, jobPlan, optResult, submitPc, queue, schedVars, provPc,
               spawned, skipped, storedKey, otherVars >>

\* job, err := h.jobRepo.GetJob(jobID).  The id in the request is the one the
\* SubmitJob response carried, so the submit handler has finished.
CancelRead(j) ==
  /\ cancelView[j] = Nil
  /\ cancels[j] < MaxCancels
  /\ submitPc[j] = "enqueued"
  /\ cancelView' = [cancelView EXCEPT ![j] = jobStatus[j]]
  /\ cancels' = [cancels EXCEPT ![j] = @ + 1]
  /\ DBUnchanged
  /\ cancelFrame

\* The status the cancel handler may overwrite: the code has no condition.
CancelAllowed(status) == TRUE

CancelWrite(j) ==
  /\ cancelView[j] # Nil
  /\ CancelAllowed(jobStatus[j])
  /\ \/ UpdateJobStatus(j, cancelView[j], JobStatusCancelled, "user_cancelled")
     \/ DBUnchanged
  /\ cancelView' = [cancelView EXCEPT ![j] = Nil]
  /\ UNCHANGED cancels
  /\ cancelFrame

LifeNext ==
  \/ \E j \in JobIDs : SubmitInsert(j)
  \/ \E j \in JobIDs : SubmitEvent(j)
  \/ \E j \in JobIDs : SubmitEnqueue(j)
  \/ SchedStart
  \/ SchedTick
  \/ SchedPop
  \/ SchedFetch
  \/ SchedProcess
  \/ SchedAlloc
  \/ SchedFail
  \/ \E j \in JobIDs : ProvStart(j)
  \/ \E j \in JobIDs : ProvClusterFailed(j)
  \/ \E j \in JobIDs : ProvClusterReady(j)
  \/ \E j \in JobIDs : ProvExecuteFailed(j)
  \/ \E j \in JobIDs : ProvExecute(j)
  \/ \E j \in JobIDs : ExecComplete(j)
  \/ \E j \in JobIDs : CancelRead(j)
  \/ \E j \in JobIDs : CancelWrite(j)

Init == LifeInit /\ RepoIdle /\ GPUIdle /\ PoolIdle /\ QueueIdle /\ OptIdle /\ CostIdle
Next == LifeNext
Spec == Init /\ [][Next]_vars

\* The server started again on a database that already holds the first `stored`
\* jobs, submitted to the process that stopped and still pending; the queue of
\* the new process is empty and its scheduler has not loaded anything yet.
RestartInit ==
  \E stored \in 1..NumJobs :
    /\ jobStatus = [j \in JobIDs |-> IF j <= stored THEN JobStatusPending ELSE Absent]
    /\ events = [j \in JobIDs |->
                   IF j <= stored THEN << JobEvent(Nil, JobStatusPending, "job_created") >>
                   ELSE << >>]
    /\ storedKey \in [JobIDs -> SubmitKeys \cup { NoKey }]
    /\ \A j \in JobIDs : storedKey[j] = NoKey <=> j > stored
    /\ submitPc = [j \in JobIDs |-> IF j <= stored THEN "enqueued" ELSE "none"]
    /\ allocRows = [j \in JobIDs |-> 0]
    /\ jobPlan = [j \in JobIDs |-> 0]
    /\ optResult = [j \in JobIDs |-> "none"]
    /\ queue = << >>
    /\ schedPc = "start"
    /\ schedJob = 0
    /\ schedFresh = Nil
    /\ schedK = 0
    /\ provPc = [j \in JobIDs |-> "none"]
    /\ spawned = [j \in JobIDs |-> 0]
    /\ skipped = [j \in JobIDs |-> FALSE]
    /\ cancelView = [j \in JobIDs |-> Nil]
    /\ cancels = [j \in JobIDs |-> 0]

InitRestart == RestartInit /\ RepoIdle /\ GPUIdle /\ PoolIdle /\ QueueIdle /\ OptIdle /\ CostIdle
SpecRestart == InitRestart /\ [][Next]_vars

SpecGPU == Init /\ [][GPUNext]_vars

SpecGPURace == Init /\ [][GPURaceNext]_vars

SpecPool == Init /\ [][PoolNext]_vars

(***************************************************************************)
(* SpecRepo: workers that drive the repository directly.  Each worker does *)
(* the scheduler's check-then-act on a job: GetJob, and if the job is      *)
(* pending, UpdateJobStatus(pending -> scheduled).                         *)
(***************************************************************************)
repoFrame ==
  UNCHANGED << allocRows, jobPlan, optResult, submitPc, queue, schedVars, provPc,
               spawned, skipped, cancelView, cancels, storedKey, gpuVars, poolVars,
               queueVars, optVars, costVars >>

WorkerRead(w, j) ==
  /\ workerPc[w][j] = "idle"
  /\ submitPc[j] = "created"       \* CreateJob has returned the job
  /\ workerPc' = [workerPc EXCEPT ![w][j] =
                    IF jobStatus[j] = JobStatusPending THEN "attempt" ELSE "observed"]
  /\ DBUnchanged
  /\ repoFrame

WorkerUpdate(w, j) ==
  /\ workerPc[w][j] = "attempt"
  /\ \/ /\ UpdateJobStatus(j, JobStatusPending, JobStatusScheduled,
                           "optimizer_selected_allocation")
        /\ workerPc' = [workerPc EXCEPT ![w][j] = "ok"]
     \/ /\ DBUnchanged
        /\ workerPc' = [workerPc EXCEPT ![w][j] = "error"]
  /\ repoFrame

\* A worker whose call returned an error starts over.
WorkerRetry(w, j) ==
  /\ workerPc[w][j] = "error"
  /\ workerPc' = [workerPc EXCEPT ![w][j] = "idle"]
  /\ DBUnchanged
  /\ repoFrame

RepoNext ==
  \/ \E j \in JobIDs : SubmitInsert(j)
  \/ \E j \in JobIDs : SubmitEvent(j)
  \/ \E w \in Workers, j \in JobIDs : WorkerRead(w, j)
  \/ \E w \in Workers, j \in JobIDs : WorkerUpdate(w, j)
  \/ \E w \in Workers, j \in JobIDs : WorkerRetry(w, j)

SpecRepo == Init /\ [][RepoNext]_vars

(***************************************************************************)
(* SpecQueue: goroutines calling JobQueue.Enqueue and JobQueue.PopJob.     *)
(* Both methods take jq.mu for their whole body; inside, heap.Push is      *)
(* jq.Push (append) then up, and heap.Pop is Swap(0, n), down, then jq.Pop *)
(* (cut the last element).  The queued jobs are numbered in created_at     *)
(* order and are handed to Enqueue in any order.                           *)
(***************************************************************************)
QueueKeys == { <<0, 1>>, <<0, 2>>, <<1, 1>>, <<2, 1>> }
QueueJobIDs == 1..MaxQueued

queueFrame ==
  UNCHANGED << jobStatus, events, allocRows, jobPlan, storedKey, optResult, submitPc,
               schedVars, provPc, spawned, skipped, cancelView, cancels, repoVars,
               gpuVars, poolVars, optVars, costVars >>

\* jq.mu.Lock() succeeds when nobody holds the mutex.
MuFreeNoLock(holder) == TRUE
MuFree(holder) == holder = 0

\* Enqueue: Lock, then heap.Push's call of jq.Push.
QEnqueueBegin(p, id) ==
  /\ qPc[p] = "idle"
  /\ MuFree(mu)
  /\ \A e \in enqueued : e.id # id
  /\ \E k \in QueueKeys :
       LET item == QueuedJob(id, k[1], k[2])
       IN /\ queue' = Append(queue, item)
          /\ enqueued' = enqueued \cup { item }
  /\ mu' = p
  /\ qPc' = [qPc EXCEPT ![p] = "up"]
  /\ run' = 0
  /\ UNCHANGED returned
  /\ queueFrame

\* Enqueue: heap.Push's up(h, h.Len()-1), then the deferred Unlock.
QEnqueueEnd(p) ==
  /\ qPc[p] = "up"
  /\ queue' = IF queue = << >> THEN queue ELSE HeapUp(queue, Len(queue) - 1)
  /\ mu' = 0
  /\ qPc' = [qPc EXCEPT ![p] = "idle"]
  /\ UNCHANGED << enqueued, returned, run >>
  /\ queueFrame

\* PopJob: Lock, the Len check, then heap.Pop's Swap(0, n) and down(0, n).
QPopBegin(p) ==
  /\ qPc[p] = "idle"
  /\ MuFree(mu)
  /\ IF Len(queue) = 0
     THEN UNCHANGED << queue, mu, qPc >>          \* returns nil
     ELSE /\ queue' = HeapDown(Swap(queue, 0, Len(queue) - 1), 0, Len(queue) - 1)
          /\ mu' = p
          /\ qPc' = [qPc EXCEPT ![p] = "cut"]
  /\ UNCHANGED << enqueued, returned, run >>
  /\ queueFrame

\* PopJob: heap.Pop's call of jq.Pop, which cuts and returns the last element,
\* then the deferred Unlock.
QPopEnd(p) ==
  /\ qPc[p] = "cut"
  /\ IF queue = << >>
     THEN UNCHANGED << queue, returned, run >>    \* index out of range: panic
     ELSE /\ returned' = Append(returned, queue[Len(queue)])
          /\ queue' = SubSeq(queue, 1, Len(queue) - 1)
          /\ run' = run + 1
  /\ mu' = 0
  /\ qPc' = [qPc EXCEPT ![p] = "idle"]
  /\ UNCHANGED enqueued
  /\ queueFrame

QueueNext ==
  \/ \E p \in QProcs, id \in QueueJobIDs : QEnqueueBegin(p, id)
  \/ \E p \in QProcs : QEnqueueEnd(p)
  \/ \E p \in QProcs : QPopBegin(p)
  \/ \E p \in QProcs : QPopEnd(p)

SpecQueue == Init /\ [][QueueNext]_vars

(***************************************************************************)
(* SpecOpt: the allocation optimizer (AllocationOptimizer.Optimize).       *)
(*                                                                         *)
(* Money is counted in whole dollars and EstimatedHours is the 1.0 the     *)
(* spec parser always sets.  Availability, MinReliability and              *)
(* PerformanceWeight are counted in hundredths.  A string that the code    *)
(* splits on ":" is the sequence of its colon-free pieces, and a dataset   *)
(* URI is the sequence of its characters.  A float64 that the code only    *)
(* compares is a fraction [nan, num, den] with den > 0; nan stands for the *)
(* NaN that 0/0 gives.                                                     *)
(*                                                                         *)
(* Go iterates a map in an order that changes from run to run, so every    *)
(* "for ... range map" is a choice among the permutations of the keys.     *)
(* sort.Slice on the at most six elements sorted here is an insertion      *)
(* sort, which is what insertionSort computes.                             *)
(***************************************************************************)
BadScore == 999999            \* bestCost := 999999.0 and strategy.Score = 999999
DataTransferCost == 10        \* 100.0 GB at $0.10 per GB

\* Rows of gpu_pricing that are fresh when Optimize reads them.
Catalogue ==
    [ p3small |->
        [ Provider |-> "aws", InstanceType |-> "p3.2xlarge", Region |-> << "us-east-1" >>,
          GPUsPerInstance |-> 1, MemoryPerGPU |-> 16, PricePerHour |-> 3, SpotPrice |-> 1,
          Availability |-> 90, InterconnectTier |-> "standard" ],
      p3large |->
        [ Provider |-> "aws", InstanceType |-> "p3.8xlarge", Region |-> << "us-east-1" >>,
          GPUsPerInstance |-> 2, MemoryPerGPU |-> 16, PricePerHour |-> 6, SpotPrice |-> 0,
          Availability |-> 99, InterconnectTier |-> "high" ],
      a2high |->
        [ Provider |-> "gcp", InstanceType |-> "a2-highgpu-2g",
          Region |-> << "us-central1" >>,
          GPUsPerInstance |-> 2, MemoryPerGPU |-> 40, PricePerHour |-> 4, SpotPrice |-> 2,
          Availability |-> 96, InterconnectTier |-> "high" ],
      dgx |->
        [ Provider |-> "onprem", InstanceType |-> "dgx-2", Region |-> << "" >>,
          GPUsPerInstance |-> 2, MemoryPerGPU |-> 40, PricePerHour |-> 5, SpotPrice |-> 0,
          Availability |-> 0, InterconnectTier |-> "high" ] ]

\* GetAllInstances: the rows grouped by provider, each group in row order; a
\* provider without rows is no key of the map.
PricingSnapshots ==
    { LET rows(p) == CASE p = "aws" -> aws [] p = "gcp" -> gcp [] OTHER -> onprem
      IN [ p \in { q \in { "aws", "gcp", "onprem" } : rows(q) # << >> } |-> rows(p) ] :
        aws \in { << >>, << Catalogue.p3small >>, << Catalogue.p3large >>,
                  << Catalogue.p3small, Catalogue.p3large >>,
                  << Catalogue.p3large, Catalogue.p3small >> },
        gcp \in { << >>, << Catalogue.a2high >> },
        onprem \in { << >>, << Catalogue.dgx >> } }

RequirementChoices ==
    [ GPUs : { 1, 3 }, GPUMemory : { 16, 40 },
      ExecutionMode : { "single_cluster", "multi_task" },
      RequiresMultiNode : BOOLEAN, MaxGPUsPerNode : { 0, 1 },
      DatasetLocation : { << >>, << "g", "s", ":", "/", "/", "d" >> } ]
    \cup  \* a multi-node job that needs more than 16 nodes of two GPUs
    { [ GPUs |-> 33, GPUMemory |-> 16, ExecutionMode |-> "single_cluster",
        RequiresMultiNode |-> TRUE, MaxGPUsPerNode |-> 0, DatasetLocation |-> << >> ] }
ConstraintChoices ==
    [ MaxBudget : { 2, 20 }, AllowSpot : BOOLEAN, MinReliability : { 0, 95 },
      PerformanceWeight : { 50 }, DataLocality : { "ignore", "required" } ]

RECURSIVE Perms(_)
Perms(S) ==
    IF S = {} THEN { << >> }
    ELSE UNION { { << x >> \o p : p \in Perms(S \ { x }) } : x \in S }

\* a < b for two float64 values; a comparison with NaN is false.  The whole
\* parts are compared first so that the products stay small.
KeyLess(a, b) ==
    /\ ~a.nan /\ ~b.nan
    /\ \/ a.num \div a.den < b.num \div b.den
       \/ /\ a.num \div a.den = b.num \div b.den
          /\ (a.num % a.den) * b.den < (b.num % b.den) * a.den

RECURSIVE insertDown(_, _)
insertDown(s, j) ==
    IF j > 1 /\ KeyLess(s[j].key, s[j - 1].key)
    THEN insertDown([s EXCEPT ![j] = s[j - 1], ![j - 1] = s[j]], j - 1)
    ELSE s

\* The insertion sort of s[i..], s[1..i-1] being sorted; sort.Slice(s) is
\* insertionSort(s, 2).
RECURSIVE insertionSort(_, _)
insertionSort(s, i) ==
    IF i > Len(s) THEN s ELSE insertionSort(insertDown(s, i), i + 1)

\* The candidates in the order sort.Slice leaves them: by price per GPU in
\* cheapestStrategy, by price per instance in geoDistributedTaskStrategy.
SortByPrice(cands, con, perGPU) ==
    LET price(instance) ==
            IF instance.SpotPrice > 0 /\ con.AllowSpot THEN instance.SpotPrice
            ELSE instance.PricePerHour
        keyed == [ i \in 1..Len(cands) |->
                     [ val |-> cands[i],
                       key |-> [ nan |-> FALSE, num |-> price(cands[i]),
                                 den |-> IF perGPU THEN cands[i].GPUsPerInstance
                                         ELSE 1 ] ] ]
        sorted == insertionSort(keyed, 2)
    IN [ i \in 1..Len(cands) |-> sorted[i].val ]

\* filterCandidates: one outcome per order in which the provider map is walked.
filterCandidates(allInstances, req) ==
    LET meets(instance) ==
            instance.GPUsPerInstance > 0 /\ instance.MemoryPerGPU >= req.GPUMemory
        walk(order) ==
            LET cat[i \in 0..Len(order)] ==
                    IF i = 0 THEN << >>
                    ELSE cat[i - 1] \o SelectSeq(allInstances[order[i]], meets)
            IN cat[Len(order)]
    IN { walk(order) : order \in Perms(DOMAIN allInstances) }

getMaxNodesForProvider(provider) ==
    CASE provider = "aws" -> 16
      [] provider = "gcp" -> 32
      [] provider = "azure" -> 16
      [] provider = "onprem" -> 100
      [] OTHER -> 8

InstancesNeededFloor(remaining, gpusPerInstance) == remaining \div gpusPerInstance

\* (remaining + gpusPerInstance - 1) / gpusPerInstance, where Go's integer
\* division truncates toward zero.
InstancesNeeded(remaining, gpusPerInstance) ==
    LET n == remaining + gpusPerInstance - 1
    IN IF n >= 0 THEN n \div gpusPerInstance ELSE -((-n) \div gpusPerInstance)

filterMultiNodeCompatibleAll(cands, req) == cands

filterMultiNodeCompatible(cands, req) ==
    LET ok(instance) ==
            /\ instance.InterconnectTier = "high"
            /\ InstancesNeeded(req.GPUs, instance.GPUsPerInstance)
                 <= getMaxNodesForProvider(instance.Provider)
    IN SelectSeq(cands, ok)

NewAllocation(provider, region, instance, count, con) ==
    LET useSpot == con.AllowSpot /\ instance.SpotPrice > 0
        price == IF useSpot THEN instance.SpotPrice ELSE instance.PricePerHour
    IN [ Provider |-> provider, InstanceType |-> instance.InstanceType,
         Region |-> region, Count |-> count, Spot |-> useSpot,
         PricePerHour |-> price, EstimatedCost |-> price * count ]

\* The greedy loop of cheapestStrategy over the sorted instances.
RECURSIVE allocateGreedily(_, _, _, _, _)
allocateGreedily(sorted, remaining, allocation, req, con) ==
    IF sorted = << >> \/ remaining <= 0
    THEN [ allocation |-> allocation, remaining |-> remaining ]
    ELSE LET instance == Head(sorted)
             instancesNeeded == InstancesNeeded(remaining, instance.GPUsPerInstance)
             skip == allocateGreedily(Tail(sorted), remaining, allocation, req, con)
         IN IF req.MaxGPUsPerNode > 0 /\ instance.GPUsPerInstance > req.MaxGPUsPerNode
            THEN skip
            ELSE IF instancesNeeded <= 0
            THEN skip
            ELSE IF /\ req.RequiresMultiNode
                    /\ instancesNeeded > getMaxNodesForProvider(instance.Provider)
            THEN skip
            ELSE allocateGreedily(
                     Tail(sorted),
                     remaining - instancesNeeded * instance.GPUsPerInstance,
                     Append(allocation,
                            NewAllocation(instance.Provider, instance.Region,
                                          instance, instancesNeeded, con)),
                     req, con)

cheapestStrategy(candidates, req, con) ==
    LET cands == IF req.ExecutionMode = "single_cluster" /\ req.RequiresMultiNode
                 THEN filterMultiNodeCompatible(candidates, req)
                 ELSE candidates
        done == allocateGreedily(SortByPrice(cands, con, TRUE), req.GPUs, << >>,
                                 req, con)
    IN IF done.remaining > 0 THEN [ Allocation |-> << >>, TotalCost |-> 0 ]
       ELSE [ Allocation |-> done.allocation, TotalCost |-> 0 ]

\* strings.Split(key, ":") of a key "provider:region".
parseRegionKey(key) ==
    IF Len(key) # 2 THEN << "aws", << "us-east-1" >> >> ELSE << key[1], << key[2] >> >>

\* The map from fmt.Sprintf("%s:%s", provider, region) to the instances there.
regionGroups(cands) ==
    LET key(instance) == << instance.Provider >> \o instance.Region
    IN [ k \in { key(cands[i]) : i \in 1..Len(cands) } |->
           SelectSeq(cands, LAMBDA instance : key(instance) = k) ]

\* "for regionKey, instances := range regionGroups" walked in the given order.
RECURSIVE regionLoop(_, _, _, _, _, _, _)
regionLoop(order, groups, verify, bestStrategy, bestCost, req, con) ==
    IF order = << >> THEN bestStrategy
    ELSE LET regionKey == Head(order)
             regionStrategy == cheapestStrategy(groups[regionKey], req, con)
             parsed == parseRegionKey(regionKey)
             spans == \E i \in 1..Len(regionStrategy.Allocation) :
                         \/ regionStrategy.Allocation[i].Provider # parsed[1]
                         \/ regionStrategy.Allocation[i].Region # parsed[2]
         IN IF /\ regionStrategy.TotalCost < bestCost
               /\ Len(regionStrategy.Allocation) > 0
            THEN regionLoop(Tail(order), groups, verify, regionStrategy,
                            IF verify /\ spans THEN BadScore
                            ELSE regionStrategy.TotalCost,
                            req, con)
            ELSE regionLoop(Tail(order), groups, verify, bestStrategy, bestCost,
                            req, con)

cheapestSingleRegionStrategy(cands, req, con) ==
    LET groups == regionGroups(cands)
    IN { regionLoop(order, groups, TRUE, [ Allocation |-> << >>, TotalCost |-> 0 ],
                    BadScore, req, con) :
           order \in Perms(DOMAIN groups) }

reliableSingleRegionStrategy(cands, req, con) ==
    LET reliable(instance) ==
            instance.Provider = "onprem" \/ instance.Availability >= 95
        kept == SelectSeq(cands, reliable)
        reliableCandidates == IF kept = << >> THEN cands ELSE kept
        groups == regionGroups(reliableCandidates)
    IN { regionLoop(order, groups, TRUE, [ Allocation |-> << >>, TotalCost |-> 0 ],
                    BadScore, req, con) :
           order \in Perms(DOMAIN groups) }

parseDatasetLocation(uri) ==
    LET scheme == SubSeq(uri, 1, 5)
    IN IF Len(uri) < 5 THEN << "aws", << "us-east-1" >> >>
       ELSE CASE scheme = << "s", "3", ":", "/", "/" >> -> << "aws", << "us-east-1" >> >>
              [] scheme = << "g", "s", ":", "/", "/" >> -> << "gcp", << "us-central1" >> >>
              [] scheme = << "a", "z", ":", "/", "/" >> -> << "azure", << "eastus" >> >>
              [] scheme = << "m", "i", "n", "i", "o" >> -> << "onprem", << "" >> >>
              [] OTHER -> << "aws", << "us-east-1" >> >>

dataLocalityStrategy(cands, req, con) ==
    LET dataset == parseDatasetLocation(req.DatasetLocation)
        preferred(instance) ==
            instance.Provider = dataset[1] /\ instance.Region = dataset[2]
        preferredCandidates == SelectSeq(cands, preferred)
        otherCandidates == SelectSeq(cands, LAMBDA instance : ~preferred(instance))
        groups == regionGroups(preferredCandidates)
        bests == { regionLoop(order, groups, FALSE,
                              [ Allocation |-> << >>, TotalCost |-> 0 ],
                              BadScore, req, con) :
                     order \in Perms(DOMAIN groups) }
        fallback == IF otherCandidates # << >>
                    THEN cheapestSingleRegionStrategy(otherCandidates, req, con)
                    ELSE cheapestSingleRegionStrategy(cands, req, con)
    IN UNION { IF Len(best.Allocation) > 0 THEN { best } ELSE fallback : best \in bests }

geoDistributedTaskStrategy(cands, req, con) ==
    LET groups == regionGroups(cands)
        totalTasks == IF req.GPUs = 0 THEN 1 ELSE req.GPUs
        allocate(regions) ==
            LET n == Len(regions)
                tasksPerRegion == IF totalTasks \div n = 0 THEN 1 ELSE totalTasks \div n
            IN [ i \in 1..n |->
                   LET bestInstance == SortByPrice(groups[regions[i]], con, FALSE)[1]
                       parsed == parseRegionKey(regions[i])
                       remainingTasks == IF i = n
                                         THEN totalTasks - tasksPerRegion * (n - 1)
                                         ELSE tasksPerRegion
                   IN NewAllocation(parsed[1], parsed[2], bestInstance,
                                    InstancesNeeded(remainingTasks,
                                                    bestInstance.GPUsPerInstance),
                                    con) ]
    IN IF DOMAIN groups = {} THEN { [ Allocation |-> << >>, TotalCost |-> 0 ] }
       ELSE { [ Allocation |-> allocate(regions), TotalCost |-> 0 ] :
                regions \in Perms(DOMAIN groups) }

hybridTaskStrategy(cands, req, con) ==
    LET onPrem(instance) == instance.Provider = "onprem"
        onPremCandidates == SelectSeq(cands, onPrem)
        cloudCandidates == SelectSeq(cands, LAMBDA instance : ~onPrem(instance))
        strategy == cheapestStrategy(onPremCandidates, req, con)
    IN IF onPremCandidates # << >> /\ Len(strategy.Allocation) > 0 THEN strategy
       ELSE cheapestStrategy(cloudCandidates, req, con)

generateMultiTaskOnly(cands, req, con) ==
    { << cheapestStrategy(cands, req, con), geo, hybridTaskStrategy(cands, req, con) >> :
        geo \in geoDistributedTaskStrategy(cands, req, con) }

\* generateStrategies: every list of strategies the map walks can produce.
\* cheapestMultiProviderStrategy is cheapestStrategy on all candidates.
generateStrategies(cands, req, con) ==
    CASE req.ExecutionMode = "single_cluster" ->
           { << cheapest, reliable >> \o locality :
               cheapest \in cheapestSingleRegionStrategy(cands, req, con),
               reliable \in reliableSingleRegionStrategy(cands, req, con),
               locality \in
                 IF con.DataLocality \in { "required", "prefer" }
                 THEN { << s >> : s \in dataLocalityStrategy(cands, req, con) }
                 ELSE { << >> } }
      [] req.ExecutionMode = "multi_task" ->
           { << cheapestStrategy(cands, req, con), geo,
                hybridTaskStrategy(cands, req, con) >> :
               geo \in geoDistributedTaskStrategy(cands, req, con) }
      [] OTHER -> { << >> }

CalculateCost(allocation) ==
    LET cost(i) == allocation[i].PricePerHour * allocation[i].Count
        sum[i \in 0..Len(allocation)] == IF i = 0 THEN 0 ELSE sum[i - 1] + cost(i)
    IN sum[Len(allocation)]

\* The dataTransferCost of scoreStrategies: CalculateDataTransferCost from the
\* "aws", "us-east-1" that parseProviderFromLocation and
\* parseRegionFromLocation return for every location.
TransferCost(allocation, req) ==
    LET cost(i) == IF /\ "aws" = allocation[i].Provider
                      /\ << "us-east-1" >> = allocation[i].Region
                   THEN 0 ELSE DataTransferCost
        sum[i \in 0..Len(allocation)] == IF i = 0 THEN 0 ELSE sum[i - 1] + cost(i)
    IN IF req.DatasetLocation = << >> THEN 0 ELSE sum[Len(allocation)]

SpotCount(allocation) ==
    LET count(i) == IF allocation[i].Spot THEN allocation[i].Count ELSE 0
        sum[i \in 0..Len(allocation)] == IF i = 0 THEN 0 ELSE sum[i - 1] + count(i)
    IN sum[Len(allocation)]

\* 1.0 - (spotCount / len(Allocation) * 0.1)
Reliability(allocation) ==
    IF Len(allocation) = 0 THEN [ nan |-> TRUE, num |-> 0, den |-> 1 ]
    ELSE [ nan |-> FALSE, num |-> 10 * Len(allocation) - SpotCount(allocation),
           den |-> 10 * Len(allocation) ]

Score(allocation, req, con) ==
    LET cost == CalculateCost(allocation) + TransferCost(allocation, req)
        len == Len(allocation)
        weighted ==
            IF len = 0 THEN [ nan |-> TRUE, num |-> 0, den |-> 1 ]
            ELSE [ nan |-> FALSE,
                   num |-> (100 - con.PerformanceWeight) * cost * len
                             + 2 * con.MaxBudget * SpotCount(allocation),
                   den |-> 100 * con.MaxBudget * len ]
        floor == [ nan |-> FALSE, num |-> con.MinReliability, den |-> 100 ]
        bad == [ nan |-> FALSE, num |-> BadScore, den |-> 1 ]
    IN IF KeyLess(Reliability(allocation), floor) THEN bad
       ELSE IF cost > con.MaxBudget THEN bad
       ELSE weighted

scoreStrategies(strategies, req, con) ==
    LET keyed == [ i \in 1..Len(strategies) |->
                     [ val |-> [ Allocation |-> strategies[i].Allocation,
                                 TotalCost |-> CalculateCost(strategies[i].Allocation) ],
                       key |-> Score(strategies[i].Allocation, req, con) ] ]
        sorted == insertionSort(keyed, 2)
    IN [ i \in 1..Len(strategies) |-> sorted[i].val ]

\* Optimize: every ( []Allocation, error ) it can return once the pricing has
\* been fetched.
Optimize(allInstances, req, con) ==
    { LET scoredStrategies == scoreStrategies(strategies, req, con)
      IN IF Len(scoredStrategies) = 0
         THEN [ err |-> "no suitable allocation found", plan |-> << >> ]
         ELSE [ err |-> "", plan |-> scoredStrategies[1].Allocation ] :
        strategies \in UNION { generateStrategies(cands, req, con) :
                                 cands \in filterCandidates(allInstances, req) } }

\* One call of Optimize; FetchAllPricing may fail before anything is computed.
OptimizeCall ==
    /\ Len(plans) < MaxRuns
    /\ \E result \in Optimize(pricing, requirements, constraints)
                       \cup { [ err |-> "pricing", plan |-> << >> ] } :
          plans' = Append(plans, result)
    /\ UNCHANGED << pricing, requirements, constraints >>
    /\ UNCHANGED << lifeVars, repoVars, gpuVars, poolVars, queueVars, costVars >>

InitOpt ==
    /\ LifeInit /\ RepoIdle /\ GPUIdle /\ PoolIdle /\ QueueIdle /\ CostIdle
    /\ pricing \in PricingSnapshots
    /\ requirements \in RequirementChoices
    /\ constraints \in ConstraintChoices
    /\ plans = << >>

SpecOpt == InitOpt /\ [][OptimizeCall]_vars

(***************************************************************************)
(* CostTracker and JobMonitor.  Time is counted in tenths of an hour and   *)
(* money in tenths of a dollar, so that price_per_hour * count * hours is  *)
(* PricePerHour * Count * (now - LastUpdate) in these units.  The jobs of  *)
(* SpecCost are created and moved through their lifecycle by the other     *)
(* components while the tracker and the monitor run.                       *)
(***************************************************************************)
deltaCostPerInstance(allocations, deltaHours) ==
  LET sum[i \in 0..Len(allocations)] ==
        IF i = 0 THEN 0 ELSE sum[i - 1] + allocations[i].PricePerHour * deltaHours
  IN sum[Len(allocations)]

\* The loop of updateJobCost over jobCost.Allocations.
deltaCost(allocations, deltaHours) ==
  LET sum[i \in 0..Len(allocations)] ==
        IF i = 0 THEN 0
        ELSE sum[i - 1] + allocations[i].PricePerHour * allocations[i].Count * deltaHours
  IN sum[Len(allocations)]

UpdateJobCostAndStatus(jobID, cost) ==
  /\ costRunningUSD' = [costRunningUSD EXCEPT ![jobID] = cost]
  /\ updatedAt' = [updatedAt EXCEPT ![jobID] = wallClock]
  /\ jobStatus' = [jobStatus EXCEPT ![jobID] =
                     IF cost >= 10 * SubmitMaxBudget THEN JobStatusCancelled ELSE @]
  /\ UNCHANGED events

\* UpdateJobCost, committed:
\* UPDATE jobs SET cost_running_usd = $1, updated_at = NOW() WHERE id = $2.
UpdateJobCost(jobID, cost) ==
  /\ costRunningUSD' = [costRunningUSD EXCEPT ![jobID] = cost]
  /\ updatedAt' = [updatedAt EXCEPT ![jobID] = wallClock]
  /\ UNCHANGED << jobStatus, events >>

\* A tick in flight holds a pointer to the JobCost it found in the map; inMap
\* tells whether the map still holds that JobCost.
\* JobCost.StartTime is written here and read nowhere; it is left out.
TrackJob(jobID, allocations) ==
  /\ jobCosts' = [jobCosts EXCEPT ![jobID] =
        [tracked |-> TRUE, RunningCost |-> 0, Allocations |-> allocations,
         LastUpdate |-> wallClock]]
  /\ tickPc' = IF tickPc.pc = "fetched" /\ tickPc.job = jobID
               THEN [tickPc EXCEPT !.inMap = FALSE] ELSE tickPc
  /\ UNCHANGED << costRunningUSD, updatedAt, alerts, wallClock, runningTime, jobStatus, events >>

StopTracking(jobID) ==
  /\ jobCosts[jobID].tracked
  /\ jobCosts' = [jobCosts EXCEPT ![jobID] = [tracked |-> FALSE]]
  /\ tickPc' = IF tickPc.pc = "fetched" /\ tickPc.job = jobID
               THEN [tickPc EXCEPT !.inMap = FALSE] ELSE tickPc
  /\ UNCHANGED << costRunningUSD, updatedAt, alerts, wallClock, runningTime, jobStatus, events >>

\* updateJobCost in two steps.  First the lookup under ct.mu and GetJob; a
\* missing map entry or a failed GetJob returns with nothing done.  Then, for
\* a job read as running, the update of the JobCost (outside ct.mu) and
\* UpdateJobCost, whose error is logged only.
updateJobCost(jobID) ==
  IF tickPc.pc = "idle"
  THEN /\ jobCosts[jobID].tracked
       /\ jobStatus[jobID] # Absent
       /\ tickPc' = [pc |-> "fetched", job |-> jobID, jobCost |-> jobCosts[jobID],
                     inMap |-> TRUE, Status |-> jobStatus[jobID]]
       /\ UNCHANGED << jobCosts, costRunningUSD, updatedAt, alerts, wallClock, runningTime, jobStatus,
                       events >>
  ELSE /\ tickPc.job = jobID
       /\ UNCHANGED << alerts, wallClock, runningTime >>
       /\ IF tickPc.Status # JobStatusRunning
          THEN /\ tickPc' = [pc |-> "idle"]
               /\ UNCHANGED << jobCosts, costRunningUSD, updatedAt, jobStatus, events >>
          ELSE LET updated == [tickPc.jobCost EXCEPT
                                 !.RunningCost = @ + deltaCost(tickPc.jobCost.Allocations,
                                                     wallClock - tickPc.jobCost.LastUpdate),
                                 !.LastUpdate = wallClock]
               IN /\ jobCosts' = IF tickPc.inMap
                                 THEN [jobCosts EXCEPT ![jobID] = updated]
                                 ELSE jobCosts
                  /\ \/ /\ UpdateJobCost(jobID, updated.RunningCost)
                        /\ tickPc' = [pc |-> "idle"]
                     \/ /\ UNCHANGED << costRunningUSD, updatedAt, jobStatus, events >>
                        /\ tickPc' = [pc |-> "idle"]

\* checkJobCost with the *models.Job that ListJobs built.
checkJobCost(job, currentCost) ==
  IF job.Constraints.MaxBudget > 0
  THEN (IF currentCost >= 9 * job.Constraints.MaxBudget
        THEN { << job.ID, "warning" >> } ELSE {})
       \cup (IF currentCost >= 10 * job.Constraints.MaxBudget
             THEN { << job.ID, "exceeded" >> } ELSE {})
  ELSE {}

\* monitorRunningJobs: ListJobs("", &running, 100, ""), whose rows.Scan fills
\* id, user_id, name, job_type, framework, status and created_at only, so that
\* Constraints is the zero value; then checkJobCost with GetRunningCost.
monitorRunningJobs ==
  /\ alerts' = [ticked |-> TRUE, emitted |->
        UNION { checkJobCost([ID |-> j, Constraints |-> [MaxBudget |-> 0]],
                             IF jobCosts[j].tracked THEN jobCosts[j].RunningCost ELSE 0) :
                  j \in ListJobs("", JobStatusRunning) }]
  /\ UNCHANGED << jobCosts, costRunningUSD, updatedAt, tickPc, wallClock, runningTime, jobStatus,
                  events >>

\* The other components: CreateJob, then the status updates of the scheduler,
\* of the provisioning task and of the executor; both set updated_at.
JobProgress(j) ==
  /\ updatedAt' = [updatedAt EXCEPT ![j] = wallClock]
  /\ UNCHANGED << jobCosts, costRunningUSD, tickPc, alerts, wallClock, runningTime >>
  /\ IF jobStatus[j] = Absent
     THEN /\ jobStatus' = [jobStatus EXCEPT ![j] = JobStatusPending]
          /\ events' = createJobEventTx(events, j, Nil, JobStatusPending, "job_created")
     ELSE \E to \in { JobStatusScheduled, JobStatusProvisioning, JobStatusRunning,
                      JobStatusCompleted } :
            /\ << jobStatus[j], to >> \in ValidTransitions
            /\ UpdateJobStatus(j, jobStatus[j], to, "")

\* Time passes; runningTime adds it up for the jobs that are running meanwhile.
CostTick ==
  /\ wallClock < MaxCostClock
  /\ wallClock' = wallClock + 1
  /\ runningTime' = [j \in JobIDs |->
        IF jobStatus[j] = JobStatusRunning THEN runningTime[j] + 1 ELSE runningTime[j]]
  /\ UNCHANGED << jobCosts, costRunningUSD, updatedAt, tickPc, alerts, jobStatus,
                  events >>

CostNext ==
  LET frame == UNCHANGED << allocRows, jobPlan, storedKey, optResult, submitPc, queue,
                            schedVars, provPc, spawned, skipped, cancelView, cancels,
                            repoVars, gpuVars, poolVars, queueVars, optVars >>
  IN \/ \E j \in JobIDs :
          TrackJob(j, << [PricePerHour |-> 3, Count |-> 2],
                         [PricePerHour |-> 4, Count |-> 1] >>) /\ frame
     \/ \E j \in JobIDs : StopTracking(j) /\ frame
     \/ \E j \in JobIDs : updateJobCost(j) /\ frame
     \/ monitorRunningJobs /\ frame
     \/ \E j \in JobIDs : JobProgress(j) /\ frame
     \/ CostTick /\ frame

SpecCost == Init /\ [][CostNext]_vars

(***************************************************************************)
(* Properties of the job lifecycle.                                        *)
(***************************************************************************)
Last(seq) == seq[Len(seq)]
EventsWhere(j, P(_)) == { i \in DOMAIN events[j] : P(events[j][i]) }
IsAdmission(e) == e.reason = "optimizer_selected_allocation"
IsSchedulerWrite(e) == e.reason \in { "optimizer_selected_allocation", "scheduler_error" }
IsPendingToScheduled(e) == e.from = JobStatusPending /\ e.to = JobStatusScheduled

\* C1: every job row has events, and jobs.status is the to_status of the job's
\* most recent event; no state shows a job row or a status without that event.
C1_EventStatusConsistency ==
  \A j \in JobIDs :
    jobStatus[j] # Absent =>
      /\ events[j] # << >>
      /\ Last(events[j]).to = jobStatus[j]

\* C2: of the workers that attempt pending -> scheduled on one job, at most one
\* succeeds, and the event log holds at most one pending -> scheduled event.
C2_ExactlyOneWinner ==
  \A j \in JobIDs :
    /\ Cardinality({ w \in Workers : workerPc[w][j] = "ok" }) <= 1
    /\ Cardinality(EventsWhere(j, IsPendingToScheduled)) <= 1

\* C3: every change of a job's status is an edge of the lifecycle state machine.
C3_StatusChangeIsEdge ==
  \A j \in JobIDs :
    (jobStatus[j] # Absent /\ jobStatus'[j] # jobStatus[j])
      => << jobStatus[j], jobStatus'[j] >> \in ValidTransitions
C3_LifecycleValidity == [][C3_StatusChangeIsEdge]_vars

\* C4: in each job's event log, the first event has no from_status and every
\* later event's from_status is the to_status of the event before it.
C4_EventChainContinuity ==
  \A j \in JobIDs :
    \A i \in DOMAIN events[j] :
      IF i = 1 THEN events[j][i].from = Nil
      ELSE events[j][i].from = events[j][i - 1].to

\* C5: once a job's status is completed, failed or cancelled, no step changes
\* the status or appends an event for the job.
C5_TerminalStays ==
  \A j \in JobIDs :
    jobStatus[j] \in TerminalStatuses =>
      /\ jobStatus'[j] = jobStatus[j]
      /\ events'[j] = events[j]
C5_TerminalAbsorbing == [][C5_TerminalStays]_vars

\* C6: for every job the scheduler writes the scheduled transition at most once
\* and spawns provisioning at most once, and it goes on to process a popped job
\* only when the status it re-read was pending; for a job skipped as not
\* pending the scheduler wrote no status, no event and no allocation.
C6_AtMostOnceAdmission ==
  /\ \A j \in JobIDs :
       /\ Cardinality(EventsWhere(j, IsAdmission)) <= 1
       /\ spawned[j] <= 1
       /\ skipped[j] =>
            /\ spawned[j] = 0
            /\ allocRows[j] = 0
            /\ EventsWhere(j, IsSchedulerWrite) = {}
  /\ schedPc \in { "process", "alloc", "fail" } => schedFresh = JobStatusPending

\* C6 witness: a job pushed to the queue was cancelled before the scheduler
\* popped it, and the scheduler skipped it.
C6_Witness ==
  \E j \in JobIDs :
    /\ skipped[j]
    /\ submitPc[j] = "enqueued"
    /\ jobStatus[j] = JobStatusCancelled

\* C7: when Optimize yields no feasible plan for the job being processed, the
\* scheduler takes its failure path without writing anything, and what the
\* failure path writes is pending -> failed with reason optimizer_no_plan.
C7_InfeasibleStep ==
  /\ (schedPc = "process" /\ optResult'[schedJob] = "infeasible")
       => (schedPc' = "fail" /\ jobStatus' = jobStatus /\ events' = events)
  /\ (schedPc = "fail" /\ optResult[schedJob] = "infeasible"
        /\ events'[schedJob] # events[schedJob])
       => Last(events'[schedJob]) =
            JobEvent(JobStatusPending, JobStatusFailed, "optimizer_no_plan")
C7_InfeasibleJobsFail == [][C7_InfeasibleStep]_vars

\* C34: no job that was enqueued is pending while it is neither in the queue
\* nor in the scheduler's hands: a job the scheduler has dealt with has left
\* the pending status (to scheduled or failed).
C34_NoSilentDrop ==
  \A j \in JobIDs :
    ~( /\ submitPc[j] = "enqueued"
       /\ jobStatus[j] = JobStatusPending
       /\ \A i \in DOMAIN queue : queue[i].id # j
       /\ schedJob # j )

\* C8: a job is scheduled, provisioning or running only with all allocations of
\* its plan persisted, and allocation rows exist only for a job that has the
\* scheduled transition in its log.
C8_AllocationsAtomicWithScheduled ==
  \A j \in JobIDs :
    /\ jobStatus[j] \in { JobStatusScheduled, JobStatusProvisioning, JobStatusRunning }
         => (jobPlan[j] >= 1 /\ allocRows[j] = jobPlan[j])
    /\ allocRows[j] > 0 =>
         (allocRows[j] = jobPlan[j] /\ EventsWhere(j, IsAdmission) # {})

\* C26: the scheduler loop never waits for provisioning or execution: whatever
\* the spawned tasks are doing, the loop's next step can be taken; and once the
\* task of a job is spawned, no step of the loop changes that job's status or
\* events, so that its later transitions are written outside the loop.
C26_LoopNeverWaits ==
  /\ schedPc = "idle" => ENABLED SchedTick
  /\ schedPc = "pop" => ENABLED SchedPop
  /\ schedPc = "fetch" => ENABLED SchedFetch
  /\ schedPc = "process" => ENABLED SchedProcess
  /\ schedPc = "alloc" => ENABLED SchedAlloc
  /\ schedPc = "fail" => ENABLED SchedFail

C26_LoopStep ==
  \A j \in JobIDs :
    (spawned[j] > 0 /\ schedVars' # schedVars) =>
      jobStatus'[j] = jobStatus[j] /\ events'[j] = events[j]

C9_GPULedgerSafety ==
  \A node \in NodeIDs :
    gpuAllocations[node].present =>
      /\ SumFraction(gpuAllocations[node].Allocations) <= FractionOne
      /\ SumMemory(gpuAllocations[node].Allocations) <= gpuAllocations[node].TotalMemory

\* C9 witness: a time-sliced GPU shared by several allocations that fill it.
C9_Witness ==
  \E node \in NodeIDs :
    /\ gpuAllocations[node].present
    /\ gpuAllocations[node].TimeSlicing
    /\ Len(gpuAllocations[node].Allocations) >= 2
    /\ SumFraction(gpuAllocations[node].Allocations) = FractionOne
    /\ SumMemory(gpuAllocations[node].Allocations) = gpuAllocations[node].TotalMemory

(***************************************************************************)
(* Properties of the cluster pool.                                         *)
(***************************************************************************)
\* C10: every pool entry has 0 <= available_gpus <= total_gpus and
\* active_jobs >= 0, whatever sequence of ReserveGPUs, ReleaseGPUs, ScaleUp and
\* ScaleDown calls was made.
C10_PoolCapacityInvariant ==
  \A id \in ClusterIDs :
    clusters[id].present =>
      /\ 0 <= clusters[id].AvailableGPUs
      /\ clusters[id].AvailableGPUs <= clusters[id].TotalGPUs
      /\ clusters[id].ActiveJobs >= 0

\* C22: ReserveGPUs fails exactly when the cluster is unknown or has fewer
\* available GPUs than asked for; a failed call leaves the pool unchanged, a
\* successful one takes the GPUs and counts one more active job in one step.
C22_ReserveStep ==
  (clock' = clock /\ poolReturn'.op = "ReserveGPUs") =>
    LET id == poolReturn'.clusterID
        gpus == poolReturn'.gpus
        fails == ~clusters[id].present \/ clusters[id].AvailableGPUs < gpus
    IN /\ poolReturn'.err <=> fails
       /\ fails => clusters' = clusters
       /\ ~fails =>
            /\ clusters'[id].AvailableGPUs = clusters[id].AvailableGPUs - gpus
            /\ clusters'[id].ActiveJobs = clusters[id].ActiveJobs + 1
            /\ \A other \in ClusterIDs \ { id } : clusters'[other] = clusters[other]

C22_ReserveContract == [][C22_ReserveStep]_vars

\* C22 witness: a reservation that took all the GPUs of a cluster, after which
\* a further reservation on it fails.
C22_Witness ==
  /\ poolReturn.op = "ReserveGPUs"
  /\ poolReturn.err
  /\ clusters[poolReturn.clusterID].present
  /\ clusters[poolReturn.clusterID].ActiveJobs >= 1
  /\ clusters[poolReturn.clusterID].AvailableGPUs < poolReturn.gpus

\* C27: every CheckAndScale iteration invokes ScaleDown, whatever the queue
\* depth and whether or not the scale-up step was attempted or failed.
C27_ScaleDownUnconditional ==
  poolReturn.op = "CheckAndScale" => poolReturn.scaleDown

\* C28: a ScaleUp(demand) call on a pool below max_size adds exactly
\* min(max(1, demand / 8), max_size - current) entries, also when several calls
\* are made within one clock second, and the pool never exceeds max_size.
C28_ScaleUpStep ==
  /\ PoolLen(clusters') <= PoolMaxSize
  /\ (clock' = clock /\ poolReturn'.op = "ScaleUp" /\ PoolLen(clusters) < PoolMaxSize) =>
       LET wanted == IF poolReturn'.demand \div GPUsPerCluster < 1 THEN 1
                     ELSE poolReturn'.demand \div GPUsPerCluster
           room == PoolMaxSize - PoolLen(clusters)
       IN PoolLen(clusters') = PoolLen(clusters) + (IF wanted < room THEN wanted ELSE room)

C28_ScaleUpSize == [][C28_ScaleUpStep]_vars

\* C37: a ScaleUp call leaves every entry that was in the pool before the
\* call as it was (available_gpus, active_jobs, last_used_at and the rest),
\* also an entry with reservations and one created in the same clock second.
C37_ScaleUpStep ==
  (clock' = clock /\ poolReturn'.op = "ScaleUp") =>
    \A id \in ClusterIDs : clusters[id].present => clusters'[id] = clusters[id]

C37_ScaleUpPreserves == [][C37_ScaleUpStep]_vars

\* C29: ScaleDown(idle) removes only entries with active_jobs = 0 whose
\* last_used_at is older than idle, and never takes the pool below min_size; a
\* pool at or below min_size is left unchanged.
C29_ScaleDownStep ==
  (clock' = clock /\ poolReturn'.op = "ScaleDown") =>
    /\ \A id \in ClusterIDs :
         IF clusters[id].present /\ ~clusters'[id].present
         THEN /\ clusters[id].ActiveJobs = 0
              /\ clock - clusters[id].LastUsedAt > poolReturn'.idleTime
         ELSE clusters'[id] = clusters[id]
    /\ PoolLen(clusters) > PoolMinSize => PoolLen(clusters') >= PoolMinSize
    /\ PoolLen(clusters) <= PoolMinSize => clusters' = clusters

C29_ScaleDownSafety == [][C29_ScaleDownStep]_vars

\* C29 witness: ScaleDown has removed the first cluster of a pair created in
\* one second and stopped at min_size, while a cluster with active jobs stays.
C29_Witness ==
  /\ poolReturn.op = "ScaleDown"
  /\ PoolLen(clusters) = PoolMinSize
  /\ \E t \in 0..MaxClock :
       /\ ~clusters[<< t, 0 >>].present
       /\ clusters[<< t, 1 >>].present
       /\ clusters[<< t, 1 >>].ActiveJobs > 0

(***************************************************************************)
(* Properties of the priority queue.                                       *)
(***************************************************************************)
\* The jobs returned by the PopJob calls made since the last Enqueue.
PoppedRun == SubSeq(returned, Len(returned) - run + 1, Len(returned))

\* The documented order: a deadline outranks none, the earlier deadline
\* outranks the later, and without deadlines the lower budget outranks.
Outranks(a, b) ==
  \/ a.deadline # 0 /\ b.deadline = 0
  \/ a.deadline # 0 /\ b.deadline # 0 /\ a.deadline < b.deadline
  \/ a.deadline = 0 /\ b.deadline = 0 /\ a.budget < b.budget

\* The full key: the documented order, then earliest created_at.
OutranksFull(a, b) ==
  \/ Outranks(a, b)
  \/ ~Outranks(b, a) /\ a.id < b.id

\* C16: successive PopJob calls return jobs in priority order: a job returned
\* later never outranks one returned before it, and no job left in the queue
\* outranks a returned one.
C16_QueueOrdering ==
  /\ \A i, j \in DOMAIN PoppedRun : i < j => ~Outranks(PoppedRun[j], PoppedRun[i])
  /\ mu = 0 =>
       \A i \in DOMAIN PoppedRun, k \in DOMAIN queue : ~Outranks(queue[k], PoppedRun[i])

\* C16 witness: three jobs were returned in a row, one with a deadline before
\* two without, the lower budget first.
C16_Witness ==
  /\ run = 3
  /\ PoppedRun[1].deadline # 0
  /\ PoppedRun[2].deadline = 0
  /\ PoppedRun[3].deadline = 0
  /\ PoppedRun[2].budget < PoppedRun[3].budget
  /\ \E e \in enqueued : e.id = 1 /\ e = PoppedRun[3]

\* C17: jobs equal in the deadline/budget key are returned in created_at order:
\* the returned sequence is non-decreasing in (deadline, budget, created_at).
C17_QueueTieBreak ==
  \A i, j \in DOMAIN PoppedRun : i < j => ~OutranksFull(PoppedRun[j], PoppedRun[i])

\* The elements of a sequence, as a set.
Range(seq) == { seq[i] : i \in DOMAIN seq }

\* The heap array is a heap under Less: no element is less than its parent.
IsHeap(h) == \A i \in 1..(Len(h) - 1) : ~Less(h[i + 1], h[((i - 1) \div 2) + 1])

\* C19: under any interleaving of Enqueue and PopJob calls from different
\* goroutines no job is lost or returned twice (the jobs returned plus the jobs
\* queued are exactly the jobs enqueued, each once), and between calls the
\* array is a heap.
C19_ConcurrentQueueSafety ==
  /\ Range(returned) \cup Range(queue) = enqueued
  /\ Len(returned) + Len(queue) = Cardinality(enqueued)
  /\ mu = 0 => IsHeap(queue)

\* C19 witness: one goroutine is inside PopJob holding the mutex while the
\* other, which enqueued before, waits; jobs were already returned and others
\* are still queued.
C19_Witness ==
  /\ mu # 0
  /\ qPc[mu] = "cut"
  /\ Len(returned) >= 1
  /\ Len(queue) >= 2
  /\ Cardinality(enqueued) = MaxQueued

(***************************************************************************)
(* Properties of the scheduler's start.                                    *)
(***************************************************************************)
\* C18: when the scheduler has started, every job that the process found
\* stored with status pending is in the priority queue with the deadline and
\* budget stored for it.
C18_RehydrationStep ==
  (schedPc = "start" /\ schedPc' # "start") =>
    \A j \in JobIDs :
      (jobStatus[j] = JobStatusPending /\ storedKey[j] # NoKey) =>
        \E i \in DOMAIN queue' : queue'[i] = QueuedJob(j, storedKey[j][1], storedKey[j][2])

C18_QueueRehydration == [][C18_RehydrationStep]_vars

(***************************************************************************)
(* Properties of the allocation modes of the GPU sharing ledger.           *)
(***************************************************************************)
\* The record is what allocateFullGPU writes: one allocation of the whole GPU.
IsFullRecord(rec) ==
  rec.present /\ ~rec.TimeSlicing /\ Len(rec.Allocations) = 1
  /\ rec.Allocations[1].GPUFraction = FractionOne

\* C20: a full-GPU allocate on a GPU that already holds a job allocation is
\* rejected and leaves that GPU's record as it was: no step turns a GPU record
\* holding allocations into a different record written by a full allocate.
C20_FullStep ==
  \A node \in NodeIDs :
    (gpuAllocations[node].present /\ gpuAllocations[node].Allocations # << >>) =>
      ~(IsFullRecord(gpuAllocations'[node]) /\ gpuAllocations'[node] # gpuAllocations[node])

C20_FullGPUExclusivity == [][C20_FullStep]_vars

\* C21: a MIG allocate on a GPU that holds non-MIG (fractional or full)
\* allocations is rejected, so that no GPU carries both kinds.
C21_MIGStep ==
  \A node \in NodeIDs :
    ( /\ gpuAllocations[node].present
      /\ ~gpuAllocations[node].MIGEnabled
      /\ gpuAllocations[node].Allocations # << >>
      /\ gpuReturn'.op = "AllocateGPU"
      /\ gpuReturn'.node = node
      /\ gpuReturn'.UseMIG ) => gpuReturn'.err

C21_MIGExclusivity == [][C21_MIGStep]_vars

\* The allocations of the jobs other than job on a GPU, in ledger order.
OthersOn(ledger, node, job) ==
  IF ledger[node].present
  THEN SelectSeq(ledger[node].Allocations, LAMBDA a : a.JobID # job)
  ELSE << >>

\* C33: ReleaseGPU(job) called right after a successful allocate of that job,
\* in any mode, succeeds, leaves no allocation of the job anywhere in the
\* ledger, leaves no GPU record it touched without allocations, and leaves
\* the allocations of other jobs as they were.
C33_ReleaseStep ==
  ( /\ gpuReturn.op = "AllocateGPU"
    /\ ~gpuReturn.err
    /\ gpuReturn'.op = "ReleaseGPU"
    /\ gpuReturn'.job = gpuReturn.job ) =>
      /\ ~gpuReturn'.err
      /\ \A node \in NodeIDs :
           /\ ~HoldsJob(gpuAllocations', node, gpuReturn.job)
           /\ OthersOn(gpuAllocations', node, gpuReturn.job)
                = OthersOn(gpuAllocations, node, gpuReturn.job)
           /\ gpuAllocations'[node] # gpuAllocations[node] =>
                (gpuAllocations'[node].present <=>
                   OthersOn(gpuAllocations, node, gpuReturn.job) # << >>)

C33_ReleaseAfterAllocate == [][C33_ReleaseStep]_vars

\* C35: under fractional allocate calls that overlap in time, the fractions
\* on a GPU never sum to more than 1.0, and every call that returned success
\* has its job allocation in the ledger (none is lost).
C35_LedgerMutualExclusion ==
  /\ \A node \in NodeIDs :
       gpuAllocations[node].present =>
         SumFraction(gpuAllocations[node].Allocations) <= FractionOne
  /\ \A job \in JobIDs :
       (gpuCalls[job].pc = "done" /\ ~gpuCalls[job].err) =>
         HoldsJob(gpuAllocations, gpuCalls[job].node, job)

\* C36 (first half): from every ledger the calls reach, a fractional allocate
\* is rejected exactly when the fractions or the memory on the GPU, with the
\* request added, exceed 1.0 or the GPU's total memory.
C36_RejectsExactly ==
  \A job \in JobIDs, node \in NodeIDs, req \in GPURequests :
    (~req.UseMIG /\ req.GPUFraction < FractionOne) =>
      LET allocs == IF gpuAllocations[node].present
                    THEN gpuAllocations[node].Allocations ELSE << >>
          total == IF gpuAllocations[node].present
                   THEN gpuAllocations[node].TotalMemory ELSE T4TotalMemory
      IN AllocateGPUResult(gpuAllocations, job, node, req).err <=>
           \/ SumFraction(allocs) + req.GPUFraction > FractionOne
           \/ SumMemory(allocs) + req.GPUMemory > total

\* C36 (second half): a rejected fractional allocate leaves the ledger as it
\* was.  Of the calls without MIG only the fractional one returns an error.
C36_RejectStep ==
  ( /\ gpuReturn'.op = "AllocateGPU"
    /\ ~gpuReturn'.UseMIG
    /\ gpuReturn'.err ) => gpuAllocations' = gpuAllocations

\* C36: a fractional allocate is rejected exactly when it would exceed the
\* GPU's capacity, and a rejected call changes nothing in the ledger.
C36_FractionalReject == []C36_RejectsExactly /\ [][C36_RejectStep]_vars

(***************************************************************************)
(* The allocation optimizer.                                               *)
(***************************************************************************)
Returned(i) == plans[i].err = ""

PlanCost(plan) == CalculateCost(plan) + TransferCost(plan, requirements)

GPUsPerInstanceOf(instanceType) ==
    (CHOOSE instance \in { Catalogue[n] : n \in DOMAIN Catalogue } :
        instance.InstanceType = instanceType).GPUsPerInstance

ProvidedGPUs(plan) ==
    LET gpus(i) == plan[i].Count * GPUsPerInstanceOf(plan[i].InstanceType)
        sum[i \in 0..Len(plan)] == IF i = 0 THEN 0 ELSE sum[i - 1] + gpus(i)
    IN sum[Len(plan)]

\* C11: a plan that Optimize returns without error costs, with its data
\* transfer, no more than max_budget.
C11_BudgetFeasibility ==
    \A i \in 1..Len(plans) :
        Returned(i) => PlanCost(plans[i].plan) <= constraints.MaxBudget

\* C12: a plan that Optimize returns without error has a reliability of at
\* least min_reliability.
C12_ReliabilityFloor ==
    \A i \in 1..Len(plans) :
        Returned(i) /\ plans[i].plan # << >> =>
            ~KeyLess(Reliability(plans[i].plan),
                     [ nan |-> FALSE, num |-> constraints.MinReliability, den |-> 100 ])

\* C13: for execution mode single_cluster every allocation of a returned plan
\* has the same provider and the same region.
C13_SingleClusterTopology ==
    requirements.ExecutionMode = "single_cluster" =>
        \A i \in 1..Len(plans) :
            Returned(i) =>
                \A a, b \in 1..Len(plans[i].plan) :
                    /\ plans[i].plan[a].Provider = plans[i].plan[b].Provider
                    /\ plans[i].plan[a].Region = plans[i].plan[b].Region

C13_Witness ==
    /\ requirements.ExecutionMode = "single_cluster"
    /\ requirements.GPUMemory = 16
    /\ Cardinality(DOMAIN pricing) >= 2
    /\ \E i \in 1..Len(plans) : Returned(i) /\ plans[i].plan # << >>

\* C14: a non-empty plan that Optimize returns provides at least
\* requirements.gpus GPUs, counting count times gpus_per_instance.
C14_AllocationCompleteness ==
    \A i \in 1..Len(plans) :
        Returned(i) /\ plans[i].plan # << >> =>
            ProvidedGPUs(plans[i].plan) >= requirements.GPUs

C14_Witness ==
    /\ requirements.ExecutionMode = "multi_task"
    /\ requirements.GPUs = 3
    /\ \E i \in 1..Len(plans) : Returned(i) /\ Len(plans[i].plan) >= 2

\* C15: two calls of Optimize on the same requirements, constraints and
\* pricing snapshot return the same plan.
C15_Determinism ==
    \A i, j \in 1..Len(plans) :
        Returned(i) /\ Returned(j) => plans[i].plan = plans[j].plan

\* The pricing row of an instance type.
InstanceOf(instanceType) ==
    CHOOSE instance \in { Catalogue[n] : n \in DOMAIN Catalogue } :
        instance.InstanceType = instanceType

\* C32: for a single_cluster job that requires multi-node training, every
\* allocation of a returned plan uses an instance type with high interconnect
\* whose node count for the job, ceil(gpus / gpus_per_instance), is within the
\* provider's max_nodes.
C32_MultiNodeFilter ==
    (requirements.ExecutionMode = "single_cluster" /\ requirements.RequiresMultiNode) =>
        \A i \in 1..Len(plans) :
            Returned(i) =>
                \A k \in 1..Len(plans[i].plan) :
                    LET instance == InstanceOf(plans[i].plan[k].InstanceType)
                    IN /\ instance.InterconnectTier = "high"
                       /\ InstancesNeeded(requirements.GPUs, instance.GPUsPerInstance)
                            <= getMaxNodesForProvider(plans[i].plan[k].Provider)

\* C32 witness: a plan returned for a multi-node job of 33 GPUs although the
\* snapshot offers a standard-interconnect type and a type that would need
\* more nodes than its provider allows.
C32_Witness ==
    /\ requirements.ExecutionMode = "single_cluster"
    /\ requirements.RequiresMultiNode
    /\ requirements.GPUs = 33
    /\ "aws" \in DOMAIN pricing
    /\ Len(pricing["aws"]) = 2
    /\ \E i \in 1..Len(plans) : Returned(i) /\ plans[i].plan # << >>

\* C31: for a single_cluster job with data locality required whose dataset
\* is at gs://..., every allocation of a plan that Optimize returns is in
\* provider gcp.
C31_RequiredLocality ==
    ( /\ requirements.ExecutionMode = "single_cluster"
      /\ constraints.DataLocality = "required"
      /\ Len(requirements.DatasetLocation) >= 5
      /\ SubSeq(requirements.DatasetLocation, 1, 5) = << "g", "s", ":", "/", "/" >> ) =>
        \A i \in 1..Len(plans) :
            Returned(i) =>
                \A k \in 1..Len(plans[i].plan) : plans[i].plan[k].Provider = "gcp"

\* C38: every allocation of every plan that Optimize returns has a count of
\* at least 1, whatever the strategy the plan comes from.
C38_PositiveCounts ==
    \A i \in 1..Len(plans) :
        Returned(i) => \A k \in 1..Len(plans[i].plan) : plans[i].plan[k].Count >= 1

\* C39: whatever the order in which the (provider, region) groups are
\* visited, the plan of cheapestSingleRegionStrategy costs no more than the
\* plan of any group for which the greedy allocator yields a complete plan.
C39_CheapestRegionMinimal ==
    (requirements.ExecutionMode = "single_cluster" /\ plans # << >>) =>
        \A cands \in filterCandidates(pricing, requirements) :
            LET groups == regionGroups(cands)
                complete == { g \in DOMAIN groups :
                    cheapestStrategy(groups[g], requirements, constraints).Allocation
                      # << >> }
            IN \A best \in cheapestSingleRegionStrategy(cands, requirements, constraints) :
                 \A g \in complete :
                    /\ best.Allocation # << >>
                    /\ CalculateCost(best.Allocation) <=
                         CalculateCost(
                           cheapestStrategy(groups[g], requirements, constraints).Allocation)

(***************************************************************************)
(* Properties of the cost tracker and the job monitor.                     *)
(***************************************************************************)
\* The step of updateJobCost that follows the lookup and GetJob.
TickWrites == tickPc.pc = "fetched" /\ tickPc'.pc = "idle"

\* C23: a tracker tick on a tracked job read as running adds (sum over the
\* allocations of price_per_hour x count) x (hours since last_update) to
\* running_cost, sets last_update to now and writes the new running_cost to the
\* job row (a failed UPDATE leaves the table as it was); on a job read as not
\* running it changes neither running_cost nor the row.  Other jobs are left alone.
C23_TickStep ==
  (TickWrites /\ tickPc.inMap) =>
    LET j == tickPc.job
        a == jobCosts[j].Allocations
        rate[i \in 0..Len(a)] ==
          IF i = 0 THEN 0 ELSE rate[i - 1] + a[i].PricePerHour * a[i].Count
        amount == jobCosts[j].RunningCost
                    + rate[Len(a)] * (wallClock - jobCosts[j].LastUpdate)
    IN IF tickPc.Status = JobStatusRunning
       THEN /\ jobCosts'[j].RunningCost = amount
            /\ jobCosts'[j].LastUpdate = wallClock
            /\ costRunningUSD'[j] = amount \/ costRunningUSD' = costRunningUSD
            /\ \A i \in JobIDs \ { j } :
                 jobCosts'[i] = jobCosts[i] /\ costRunningUSD'[i] = costRunningUSD[i]
       ELSE jobCosts' = jobCosts /\ costRunningUSD' = costRunningUSD

C23_CostAccrual == [][C23_TickStep]_vars

\* C23 witness: a running job at $10 per hour whose tick, one tenth of an hour
\* after the last update, has accrued and persisted $1.
C23_Witness ==
  \E j \in JobIDs :
    /\ tickPc.pc = "idle"
    /\ jobStatus[j] = JobStatusRunning
    /\ jobCosts[j].tracked
    /\ jobCosts[j].RunningCost = 10
    /\ jobCosts[j].LastUpdate = wallClock
    /\ wallClock > 0
    /\ costRunningUSD[j] = 10

\* C24: at a monitor tick, every running job whose accrued running_cost is at
\* least 0.9 x the max_budget it was submitted with gets a budget warning, and
\* a budget-exceeded signal when it is at least 1.0 x max_budget.
C24_MonitorStep ==
  alerts' # alerts =>
    \A j \in JobIDs :
      (jobStatus[j] = JobStatusRunning /\ jobCosts[j].tracked) =>
        /\ jobCosts[j].RunningCost >= 9 * SubmitMaxBudget =>
             << j, "warning" >> \in alerts'.emitted
        /\ jobCosts[j].RunningCost >= 10 * SubmitMaxBudget =>
             << j, "exceeded" >> \in alerts'.emitted

C24_BudgetSignal == [][C24_MonitorStep]_vars

\* The steps of the tracker: TrackJob, StopTracking and the steps of a tick.
TrackerStep ==
  jobCosts' # jobCosts \/ tickPc' # tickPc \/ costRunningUSD' # costRunningUSD

\* C25: TrackJob, StopTracking and the tracker's ticks change no job's status
\* and append no job event, also when running_cost is over max_budget;
\* cost_running_usd is the only column they write, and only a tick writes it,
\* for the job it is updating.
C25_TrackerStep ==
  /\ TrackerStep => jobStatus' = jobStatus /\ events' = events /\ updatedAt' = updatedAt
  /\ costRunningUSD' # costRunningUSD =>
       /\ TickWrites
       /\ \A i \in JobIDs \ { tickPc.job } : costRunningUSD'[i] = costRunningUSD[i]

C25_FieldOwnership == [][C25_TrackerStep]_vars

\* C25, amended: as C25, except that the tick's UPDATE also sets the row's
\* updated_at: the columns the tracker writes are cost_running_usd and
\* updated_at, of the job the tick is updating.
C25_AmendedStep ==
  /\ TrackerStep =>
       /\ jobStatus' = jobStatus /\ events' = events
       /\ \A i \in JobIDs :
            updatedAt'[i] # updatedAt[i] =>
              TickWrites /\ i = tickPc.job /\ updatedAt'[i] = wallClock
  /\ costRunningUSD' # costRunningUSD =>
       /\ TickWrites
       /\ \A i \in JobIDs \ { tickPc.job } : costRunningUSD'[i] = costRunningUSD[i]

C25_AmendedFieldOwnership == [][C25_AmendedStep]_vars

\* C25 witness: a tick has persisted a running_cost above max_budget and the
\* job is still running.
C25_Witness ==
  \E j \in JobIDs :
    /\ tickPc.pc = "idle"
    /\ jobStatus[j] = JobStatusRunning
    /\ costRunningUSD[j] >= 10 * SubmitMaxBudget
    /\ costRunningUSD[j] = jobCosts[j].RunningCost
    /\ updatedAt[j] = wallClock

\* C40: the cost accrued for a tracked job never exceeds the hourly rate of
\* its allocations times the time the job has spent in status running: time
\* before the job became running, or in any other status, is not charged.
C40_BillingCoversRunningTime ==
  \A j \in JobIDs :
    jobCosts[j].tracked =>
      jobCosts[j].RunningCost <= deltaCost(jobCosts[j].Allocations, runningTime[j])

====
